---- MODULE Spec2Model ----
(***************************************************************************)
(* A model of the nbt-serde codec: the encoder's nesting-state machine     *)
(* (encode.rs), the decoder's tag-driven descent (decode.rs), the kind     *)
(* registry (kind.rs) and the error classification (error.rs).             *)
(*                                                                         *)
(* Bytes are the integers 0..255.  Names and strings are sequences of      *)
(* bytes.  A host value is a record [k, n, s, f, e]: its kind, its number  *)
(* (integers), its bytes (strings, and floats as their bit patterns), its  *)
(* fields (records: a sequence of [name, val]) and its elements            *)
(* (sequences).  Every value carries all five fields so that two values    *)
(* can always be compared.                                                 *)
(***************************************************************************)
EXTENDS Integers, Sequences, FiniteSets, TLC

VARIABLES
    header,   \* the optional root name given to Encoder::new
    root,     \* the shape of the root value the host hands to the encoder
    writer,   \* Encoder.writer: the bytes written so far
    cap,      \* the number of bytes the stream takes before it fails; -1: any
    wfail,    \* a write to the stream has failed
    states,   \* Encoder.states: the stack of LevelState frames, top last
    eres,     \* the result of the encode call so far
    hstack,   \* the host traversal: the records and sequences being visited
    hval,     \* the root value the host has finished visiting
    calls,    \* the number of values the host has handed to the inner serializer
    last,     \* the shape of the value of the host's last serializer call
    phase,    \* "start", "encode", "encoded", "decode", "done"
    htype,    \* the type the host decodes into, as a value of that type
    reader,   \* Decoder.reader: the bytes of the stream
    pos,      \* the number of bytes of reader consumed
    dstack,   \* the decoder's cursors (MapDecoder, SeqDecoder), innermost last
    dres,     \* the result of the decode call so far
    dval      \* the decoded root value

vars == <<header, root, writer, cap, wfail, states, eres, hstack, hval, calls, last, phase,
          htype, reader, pos, dstack, dres, dval>>

encVars == <<header, root, writer, cap, wfail, states, eres, hstack, hval, calls, last>>
decVars == <<htype, reader, pos, dstack, dres, dval>>

----------------------------------------------------------------------------
(* Bounds of the model. *)

\* The host hands at most this many values to the inner serializer.
MaxCalls == 3
\* The host nests at most this many records and sequences below the root record.
MaxNest == 2
\* The longest sequence the host declares.
MaxSeqLen == 2
\* The encoder's output is at most this many bytes.
MaxBytes == 24

----------------------------------------------------------------------------
(* kind.rs: the tag registry. *)

Kinds == <<"End", "I8", "I16", "I32", "I64", "F32", "F64", "I8Array",
           "String", "List", "Compound", "I32Array", "I64Array">>

KindSet == {Kinds[i] : i \in 1..Len(Kinds)}

\* Kind::to_id: the discriminant of the enum, End = 0 .. I64Array = 12.
to_id(kind) == (CHOOSE i \in 1..Len(Kinds) : Kinds[i] = kind) - 1

\* Kind::from_id: None outside 0..12.
from_id(id) ==
    IF id \in 0..12 THEN [some |-> TRUE, kind |-> Kinds[id + 1]]
    ELSE [some |-> FALSE, kind |-> "End"]

\* list_container that frames every sequence as a generic List.
list_container_generic(kind) == "List"

\* Kind::list_container
list_container(kind) ==
    CASE kind = "I8"  -> "I8Array"
      [] kind = "I32" -> "I32Array"
      [] kind = "I64" -> "I64Array"
      [] OTHER        -> "List"

\* is_list that holds of no kind.
is_list_never(kind) == FALSE

\* Kind::is_list
is_list(kind) == kind \in {"List", "I8Array", "I32Array", "I64Array"}

----------------------------------------------------------------------------
(* byteorder: fixed-width big-endian numbers.  The model's integers are    *)
(* 32 bits wide, so a 64-bit integer is written by sign extension.         *)

Byte == 0..255

\* The two's-complement byte of a signed 8-bit value (write_i8).
I8Byte(v) == v % 256

\* The signed 8-bit value of a byte (read_i8).
ByteI8(b) == IF b >= 128 THEN b - 256 ELSE b

\* The sign-extension byte of v.
SignByte(v) == IF v < 0 THEN 255 ELSE 0

\* write_i16 with the byte order reversed (LittleEndian).
LE16(v) == <<v % 256, (v \div 256) % 256>>

\* write_u16::<BigEndian> / write_i16::<BigEndian>
BE16(v) == <<(v \div 256) % 256, v % 256>>

\* write_i32::<BigEndian>
BE32(v) == <<(v \div 16777216) % 256, (v \div 65536) % 256,
             (v \div 256) % 256, v % 256>>

\* write_i64::<BigEndian> of a value within the 32-bit range.
BE64(v) == <<SignByte(v), SignByte(v), SignByte(v), SignByte(v)>> \o BE32(v)

\* read_u16::<BigEndian>
U16Of(bs) == bs[1] * 256 + bs[2]

\* read_i16::<BigEndian>
I16Of(bs) == ByteI8(bs[1]) * 256 + bs[2]

\* read_i32::<BigEndian>
I32Of(bs) == ByteI8(bs[1]) * 16777216 + bs[2] * 65536 + bs[3] * 256 + bs[4]

\* Whether the 8 bytes of a 64-bit integer hold a value within the 32-bit range.
Fits32(bs) ==
    /\ bs[1] = bs[2] /\ bs[2] = bs[3] /\ bs[3] = bs[4]
    /\ bs[1] \in {0, 255}
    /\ bs[1] = (IF bs[5] >= 128 THEN 255 ELSE 0)

----------------------------------------------------------------------------
(* Host values. *)

Val(k, n, s, f, e) == [k |-> k, n |-> n, s |-> s, f |-> f, e |-> e]

IntVal(kind, n) == Val(kind, n, <<>>, <<>>, <<>>)
BitsVal(kind, s) == Val(kind, 0, s, <<>>, <<>>)
StrVal(s) == Val("String", 0, s, <<>>, <<>>)
RecVal(f) == Val("Compound", 0, <<>>, f, <<>>)
\* A unit struct, and a boolean (0 or 1).
UnitVal == Val("Unit", 0, <<>>, <<>>, <<>>)
BoolVal(n) == Val("Bool", n, <<>>, <<>>, <<>>)
\* A sequence carries its declared length beside its elements.
SeqVal(len, e) == Val("List", len, <<>>, <<>>, e)
NoVal == Val("End", 0, <<>>, <<>>, <<>>)

----------------------------------------------------------------------------
(* error.rs: the results of a call.  A result is [e, x, y, n]: the error   *)
(* (or "Ok", or "Running" while the call has not returned), and what the   *)
(* error carries: up to two names and a number.                            *)

Res(e, x, y, n) == [e |-> e, x |-> x, y |-> y, n |-> n]

Ok == Res("Ok", "", "", 0)
Running == Res("Running", "", "", 0)
NoRootCompound == Res("NoRootCompound", "", "", 0)
IncompleteNbtValue == Res("IncompleteNbtValue", "", "", 0)
InvalidUtf8 == Res("InvalidUtf8", "", "", 0)

\* HeterogenousList with its two kinds taken the other way round.
HeterogenousListSwapped(original, new) == Res("HeterogenousList", new, original, 0)

HeterogenousList(original, new) == Res("HeterogenousList", original, new, 0)
UnrepresentableType(name) == Res("UnrepresentableType", name, "", 0)
UnknownTag(t) == Res("UnknownTag", "", "", t)
NonBooleanByte(b) == Res("NonBooleanByte", "", "", b)
UnexpectedTag(actual, expected) == Res("UnexpectedTag", actual, expected, 0)
\* A panic!, unimplemented!, unreachable! or failed unwrap/expect: the call aborts.
Panic(msg) == Res("Panic", msg, "", 0)

\* From<io::Error> without the UnexpectedEof arm: every fault is Error::Io.
FromIoErrorAlwaysIo(kind) == Res("Io", kind, "", 0)

\* From<io::Error> for Error: an unexpected end of the stream is told apart
\* from every other I/O failure.
FromIoError(kind) ==
    IF kind = "UnexpectedEof" THEN IncompleteNbtValue
    ELSE Res("Io", kind, "", 0)

----------------------------------------------------------------------------
(* encode.rs: LevelState and the Encoder.  An encoder is [w, s, r, cap,    *)
(* bad]: the writer's bytes, the stack of frames, the result of the call   *)
(* so far, the number of bytes the writer takes (-1: any number) and       *)
(* whether a write has failed; once r is an error the call has returned    *)
(* and nothing more happens.                                               *)

Frame(st, hasName, name, kind, len) ==
    [st |-> st, hasName |-> hasName, name |-> name, kind |-> kind, len |-> len]

\* LevelState::InNamed { name: Some(name) } and { name: None }
InNamedSome(name) == Frame("InNamed", TRUE, name, "End", 0)
InNamedNone == Frame("InNamed", FALSE, <<>>, "End", 0)
\* LevelState::InList { kind }
InList(kind) == Frame("InList", FALSE, <<>>, kind, 0)
\* LevelState::List { name, len }
ListSome(name, len) == Frame("List", TRUE, name, "End", len)
ListNone(len) == Frame("List", FALSE, <<>>, "End", len)

Enc(w, s, r, c, bad) == [w |-> w, s |-> s, r |-> r, cap |-> c, bad |-> bad]

IsOk(e) == e.r.e \in {"Ok", "Running"}

Fail(e, r) == [e EXCEPT !.r = r]

Last(s) == s[Len(s)]
Pop(s) == SubSeq(s, 1, Len(s) - 1)
Push(e, frame) == IF IsOk(e) THEN [e EXCEPT !.s = Append(@, frame)] ELSE e
PopFrame(e) == IF IsOk(e) THEN [e EXCEPT !.s = Pop(@)] ELSE e

\* A write that, when it fails, takes back what the stream holds.
Write_rolled_back(e, bytes) ==
    IF ~IsOk(e) THEN e
    ELSE IF e.cap < 0 \/ Len(e.w) + Len(bytes) <= e.cap
    THEN [e EXCEPT !.w = @ \o bytes]
    ELSE Fail([e EXCEPT !.w = <<>>, !.bad = TRUE], FromIoError("WriteZero"))

\* A write to the underlying stream: the bytes are appended.
Write(e, bytes) ==
    IF ~IsOk(e) THEN e
    ELSE IF e.cap < 0 \/ Len(e.w) + Len(bytes) <= e.cap
    THEN [e EXCEPT !.w = @ \o bytes]
    ELSE Fail([e EXCEPT !.w = @ \o SubSeq(bytes, 1, e.cap - Len(e.w)),
                        !.bad = TRUE],
              FromIoError("WriteZero"))

\* A write whose Result is dropped: the encoder goes on as before it.
Ignored(e, written) == [written EXCEPT !.r = e.r]

\* write_bare_string without the write_u16 of the length.
write_bare_string_unprefixed(e, value) == Write(e, value)

\* write_bare_string whose length prefix stops at 65535 instead of wrapping.
write_bare_string_saturating(e, value) ==
    Write(Write(e, BE16(IF Len(value) > 65535 THEN 65535 ELSE Len(value))), value)

\* write_bare_string: the length as u16 (value.len() as u16), then the bytes.
write_bare_string(e, value) == Write(Write(e, BE16(Len(value) % 65536)), value)

\* Encoder::new
EncoderNew(hdr) ==
    Enc(<<>>, <<InNamedSome(IF hdr.some THEN hdr.name ELSE <<>>)>>, Running,
        -1, FALSE)

\* Encoder::specify_kind
specify_kind(e, tag) ==
    IF ~IsOk(e) THEN e
    ELSE IF is_list(tag)
    THEN Fail(e, Panic("Encoder::specify_kind called with List"))
    ELSE IF e.s = <<>> THEN Fail(e, Panic("unwrap on an empty stack"))
    ELSE
    LET top == Last(e.s)
        popped == PopFrame(e)
        replaced ==
            CASE top.st = "InNamed" /\ ~top.hasName ->
                    Fail(popped, Panic("value specified without key name"))
              [] top.st = "InNamed" /\ top.hasName ->
                    Push(write_bare_string(Write(popped, <<I8Byte(to_id(tag))>>),
                                           top.name),
                         InNamedNone)
              [] top.st = "InList" ->
                    IF top.kind # tag
                    THEN Fail(popped, HeterogenousList(top.kind, tag))
                    ELSE Push(popped, InList(top.kind))
              [] top.st = "List" /\ top.hasName ->
                    LET container == list_container(tag)
                        w1 == Write(popped, <<I8Byte(to_id(container))>>)
                        w2 == write_bare_string(w1, top.name)
                        w3 == IF container = "List"
                              THEN Write(w2, <<I8Byte(to_id(tag))>>)
                              ELSE w2
                        w4 == Ignored(w3, Write(w3, BE32(top.len)))
                    IN  Push(Push(w4, InNamedNone), InList(tag))
              [] top.st = "List" /\ ~top.hasName ->
                    Fail(popped, Panic("not implemented"))
    IN  IF tag = "Compound" THEN Push(replaced, InNamedNone) ELSE replaced

\* LevelState::open_list: the frame to push back, the second frame to push
\* (if any) and the result.
LevelState_open_list(self, len) ==
    CASE self.st = "InNamed" ->
            IF self.hasName
            THEN [push1 |-> ListSome(self.name, len), has2 |-> FALSE,
                  push2 |-> self, r |-> Ok]
            ELSE [push1 |-> self, has2 |-> FALSE, push2 |-> self,
                  r |-> Panic("Key name not specified before value")]
      [] self.st = "InList" ->
            IF is_list(self.kind)
            THEN [push1 |-> ListNone(len), has2 |-> FALSE, push2 |-> self, r |-> Ok]
            ELSE [push1 |-> self, has2 |-> FALSE, push2 |-> self,
                  r |-> HeterogenousList(self.kind, "List")]
      [] self.st = "List" ->
            [push1 |-> self, has2 |-> TRUE, push2 |-> ListNone(len), r |-> Ok]

\* Encoder::open_list
open_list(e, len) ==
    IF ~IsOk(e) THEN e
    ELSE IF e.s = <<>> THEN Fail(e, Panic("unwrap on an empty stack"))
    ELSE
    LET p == LevelState_open_list(Last(e.s), len)
        popped == PopFrame(e)
    IN  IF p.r.e # "Ok" THEN Fail(popped, p.r)
        ELSE IF p.has2 THEN Push(Push(popped, p.push1), p.push2)
        ELSE Push(popped, p.push1)

\* specify_name that replaces a pending name instead of refusing the second.
specify_name_overwriting(e, name) ==
    IF ~IsOk(e) THEN e
    ELSE IF e.s = <<>> THEN Fail(e, Panic("unwrap on an empty stack"))
    ELSE IF Last(e.s).st = "InNamed"
    THEN [e EXCEPT !.s[Len(e.s)] = InNamedSome(name)]
    ELSE Fail(e, Panic("key name specified while in a list"))

\* Encoder::specify_name
specify_name(e, name) ==
    IF ~IsOk(e) THEN e
    ELSE IF e.s = <<>> THEN Fail(e, Panic("unwrap on an empty stack"))
    ELSE
    LET top == Last(e.s)
    IN  IF top.st = "InNamed"
        THEN IF ~top.hasName
             THEN [e EXCEPT !.s[Len(e.s)] = InNamedSome(name)]
             ELSE Fail(e, Panic("key name specified twice"))
        ELSE Fail(e, Panic("key name specified while in a list"))

\* cancel_name that leaves the pending name where it is.
cancel_name_kept(e) == e

\* Encoder::cancel_name
cancel_name(e) ==
    IF ~IsOk(e) THEN e
    ELSE IF e.s = <<>> THEN Fail(e, Panic("unwrap on an empty stack"))
    ELSE IF Last(e.s).st = "InNamed"
    THEN [e EXCEPT !.s[Len(e.s)] = InNamedNone]
    ELSE e

\* LevelState::is_list that takes the committed InList for the pending List.
LevelState_is_list_committed(frame) == frame.st = "InList"

\* LevelState::is_list that holds of the committed InList as of the pending List.
LevelState_is_list_any(frame) == frame.st \in {"List", "InList"}

\* LevelState::is_list
LevelState_is_list(frame) == frame.st = "List"

\* close_level that leaves the frame it closes on the stack.
close_level_unpopped(e) ==
    IF ~IsOk(e) THEN e
    ELSE IF e.s = <<>> THEN Fail(e, Panic("unwrap on an empty stack"))
    ELSE
    LET e1 == IF Last(e.s).st = "List" THEN specify_kind(e, "End") ELSE e
    IN  IF ~IsOk(e1) THEN e1
        ELSE IF Last(e1.s).st = "InNamed"
        THEN IF Last(e1.s).hasName
             THEN Fail(e1, Panic("key name specified without value"))
             ELSE Write(e1, <<0>>)
        ELSE e1

\* Encoder::close_level
close_level(e) ==
    IF ~IsOk(e) THEN e
    ELSE IF e.s = <<>> THEN Fail(e, Panic("unwrap on an empty stack"))
    ELSE
    LET e1 == IF LevelState_is_list(Last(e.s)) THEN specify_kind(e, "End") ELSE e
    IN  IF ~IsOk(e1) THEN e1
        ELSE IF e1.s = <<>> THEN Fail(e1, Panic("unwrap on an empty stack"))
        ELSE
        LET top == Last(e1.s)
            popped == PopFrame(e1)
        IN  CASE top.st = "InNamed" ->
                    IF top.hasName
                    THEN Fail(popped, Panic("key name specified without value"))
                    ELSE Write(popped, <<0>>)
              [] top.st = "InList" -> popped
              [] OTHER -> Fail(popped, Panic("unreachable"))

----------------------------------------------------------------------------
(* encode.rs: the two serializers.  An item is what the host hands to a    *)
(* serializer: [sh, n, s, len], its shape (the serialize_* method its      *)
(* Serialize impl calls), its number, its bytes and its declared length.   *)

Item(sh, n, s, len) == [sh |-> sh, n |-> n, s |-> s, len |-> len]

\* The shapes the root serializer answers with one fixed expression
\* (return_expr_for_serialized_types!).
RootRejected ==
    {"bool", "i8", "i16", "i32", "i64", "u8", "u16", "u32", "u64", "f32", "f64",
     "char", "str", "bytes", "none", "some", "unit", "unit_variant",
     "newtype_variant", "seq", "seq_fixed_size", "tuple", "tuple_struct",
     "tuple_variant", "struct_variant"}

\* <&mut Encoder as Serializer>::serialize_unit_struct
Encoder_serialize_unit_struct(e) == close_level(specify_kind(e, "Compound"))

\* serialize_map if it were listed with the shapes the macro rejects.
Encoder_serialize_map_listed(e) == Fail(e, NoRootCompound)

\* <&mut Encoder as Serializer>::serialize_map
Encoder_serialize_map(e) == Fail(e, UnrepresentableType("map"))

\* <&mut Encoder as Serializer>::serialize_struct
Encoder_serialize_struct(e) == specify_kind(e, "Compound")

\* The root serializer, by the shape of the value.
Encoder_serialize(e, sh) ==
    CASE sh \in RootRejected  -> Fail(e, NoRootCompound)
      [] sh = "unit_struct"   -> Encoder_serialize_unit_struct(e)
      [] sh = "map"           -> Encoder_serialize_map(e)
      [] sh = "struct"        -> Encoder_serialize_struct(e)

serialize_i8(e, value) == Write(specify_kind(e, "I8"), <<I8Byte(value)>>)
serialize_i16(e, value) == Write(specify_kind(e, "I16"), BE16(value))
serialize_i32(e, value) == Write(specify_kind(e, "I32"), BE32(value))
serialize_i64(e, value) == Write(specify_kind(e, "I64"), BE64(value))
\* A float is written as the bytes of its bit pattern, most significant first.
serialize_f32(e, bits) == Write(specify_kind(e, "F32"), bits)
serialize_f64(e, bits) == Write(specify_kind(e, "F64"), bits)
serialize_str(e, value) == write_bare_string(specify_kind(e, "String"), value)

\* serialize_u8 that writes the value as an I8 (value as i8).
serialize_u8_coerced(e) == serialize_i8(e, 0)

serialize_u8(e) == Fail(e, UnrepresentableType("u8"))
serialize_none(e) == cancel_name(e)
serialize_unit_struct(e) == close_level(specify_kind(e, "Compound"))
serialize_seq(e, len) == open_list(e, len)
serialize_struct(e) == specify_kind(e, "Compound")

\* value.serialize(&mut InnerEncoder { outer }): the method the value's shape calls.
InnerSerialize(e, item) ==
    CASE item.sh = "i8"   -> serialize_i8(e, item.n)
      [] item.sh = "i16"  -> serialize_i16(e, item.n)
      [] item.sh = "i32"  -> serialize_i32(e, item.n)
      [] item.sh = "i64"  -> serialize_i64(e, item.n)
      [] item.sh = "f32"  -> serialize_f32(e, item.s)
      [] item.sh = "f64"  -> serialize_f64(e, item.s)
      [] item.sh = "str"  -> serialize_str(e, item.s)
      [] item.sh = "u8"   -> serialize_u8(e)
      [] item.sh = "none" -> serialize_none(e)
      [] item.sh = "unit_struct" -> serialize_unit_struct(e)
      [] item.sh = "seq"    -> serialize_seq(e, item.len)
      [] item.sh = "struct" -> serialize_struct(e)

\* <Compound as SerializeStruct>::serialize_field
serialize_field(e, key, item) == InnerSerialize(specify_name(e, key), item)

\* <Compound as SerializeSeq>::serialize_element
serialize_element(e, item) == InnerSerialize(e, item)

\* <Compound as SerializeStruct>::end and <Compound as SerializeSeq>::end
Compound_end(e) == close_level(e)

----------------------------------------------------------------------------
(* The host: a traversal of a value, one serializer call at a time.  The   *)
(* host keeps, for every record or sequence it is inside, the name it is   *)
(* a field under, the fields or elements visited so far, the length it     *)
(* declared and the number of serialize_element calls made.                *)

HFrame(t, name, f, e, len, cnt) ==
    [t |-> t, name |-> name, f |-> f, e |-> e, len |-> len, cnt |-> cnt]

\* The names and values the host draws from.
NameA == <<97>>
NameName == <<110, 97, 109, 101>>
Names == {NameA, NameName}
Bananrama == <<66, 97, 110, 97, 110, 114, 97, 109, 97>>
RootHeaders == {[some |-> FALSE, name |-> <<>>], [some |-> TRUE, name |-> <<114>>]}

ScalarItems ==
    {Item("i8", -2, <<>>, 0), Item("i16", 258, <<>>, 0),
     Item("i32", 16909060, <<>>, 0), Item("i64", -2, <<>>, 0),
     Item("f32", 0, <<63, 128, 0, 0>>, 0),
     Item("f64", 0, <<64, 9, 33, 251, 84, 68, 45, 24>>, 0),
     Item("str", 0, <<>>, 0), Item("str", 0, Bananrama, 0)}

Items ==
    ScalarItems
    \cup {Item("u8", 0, <<>>, 0), Item("none", 0, <<>>, 0),
          Item("unit_struct", 0, <<>>, 0), Item("struct", 0, <<>>, 0)}
    \cup {Item("seq", 0, <<>>, len) : len \in 0..MaxSeqLen}

\* The value of a scalar item.
ItemVal(item) ==
    CASE item.sh = "i8"  -> IntVal("I8", item.n)
      [] item.sh = "i16" -> IntVal("I16", item.n)
      [] item.sh = "i32" -> IntVal("I32", item.n)
      [] item.sh = "i64" -> IntVal("I64", item.n)
      [] item.sh = "f32" -> BitsVal("F32", item.s)
      [] item.sh = "f64" -> BitsVal("F64", item.s)
      [] item.sh = "str" -> StrVal(item.s)
      [] item.sh = "unit_struct" -> UnitVal
      [] OTHER -> NoVal

\* The host's stack once value v, visited under name key, is complete: v
\* becomes a field of the record, or an element of the sequence, on top.
Attach(hs, key, v) ==
    LET top == Last(hs)
    IN  IF top.t = "struct"
        THEN [hs EXCEPT ![Len(hs)].f = Append(@, [name |-> key, val |-> v])]
        ELSE [hs EXCEPT ![Len(hs)].e = Append(@, v)]

\* The host's stack after a serializer call for item went through.
Visit(hs, key, item) ==
    CASE item.sh = "none"   -> hs
      [] item.sh = "struct" -> Append(hs, HFrame("struct", key, <<>>, <<>>, 0, 0))
      [] item.sh = "seq"    -> Append(hs, HFrame("seq", key, <<>>, <<>>, item.len, 0))
      [] OTHER              -> Attach(hs, key, ItemVal(item))

\* The bytes the open records and sequences still need at the least.
Reserve(hs) ==
    LET need(i) == IF hs[i].t = "struct" THEN 1 ELSE hs[i].len - hs[i].cnt
        sum[i \in 0..Len(hs)] == IF i = 0 THEN 0 ELSE sum[i - 1] + need(i)
    IN  sum[Len(hs)]

\* The encoder of the current state.
CurEnc == Enc(writer, states, eres, cap, wfail)

\* The encoder state after a call: a failed call returns and ends the encode.
Returned(e, hs) ==
    /\ writer' = e.w
    /\ wfail' = e.bad
    /\ cap' = cap
    /\ states' = e.s
    /\ IF IsOk(e)
       THEN /\ Len(e.w) + Reserve(hs) <= MaxBytes
            /\ hstack' = hs
            /\ IF hs = <<>>
               THEN eres' = Ok /\ phase' = "encoded"
               ELSE eres' = Running /\ phase' = "encode"
       ELSE /\ hstack' = hstack
            /\ eres' = e.r
            /\ phase' = "encoded"

\* The host's count of the values handed over; an absent value is not counted.
Counted(item) ==
    IF item.sh = "none" THEN calls' = calls
    ELSE calls < MaxCalls /\ calls' = calls + 1

\* The host hands the root value, of shape sh, to the encoder.
SerializeRoot(sh) ==
    /\ phase = "start"
    /\ LET e == Encoder_serialize(CurEnc, sh)
       IN  /\ Returned(e, IF sh = "struct"
                          THEN <<HFrame("struct", <<>>, <<>>, <<>>, 0, 0)>>
                          ELSE <<>>)
           /\ hval' = IF sh = "unit_struct" /\ IsOk(e) THEN UnitVal ELSE hval
    /\ root' = sh
    /\ last' = sh
    /\ UNCHANGED <<header, calls, decVars>>

\* The host visits a field of the record it is in.
SerializeField(key, item) ==
    /\ phase = "encode"
    /\ Last(hstack).t = "struct"
    /\ item.sh \in {"struct", "seq"} => Len(hstack) <= MaxNest
    /\ Returned(serialize_field(CurEnc, key, item), Visit(hstack, key, item))
    /\ Counted(item)
    /\ last' = item.sh
    /\ UNCHANGED <<header, root, hval, decVars>>

\* The host visits an element of the sequence it is in.
SerializeElement(item) ==
    /\ phase = "encode"
    /\ Last(hstack).t = "seq"
    /\ Last(hstack).cnt < Last(hstack).len
    /\ item.sh \in {"struct", "seq"} => Len(hstack) <= MaxNest
    /\ LET counted == [hstack EXCEPT ![Len(hstack)].cnt = @ + 1]
       IN  Returned(serialize_element(CurEnc, item), Visit(counted, <<>>, item))
    /\ Counted(item)
    /\ last' = item.sh
    /\ UNCHANGED <<header, root, hval, decVars>>

\* The host has visited every field, or every element, of what it is in.
End ==
    /\ phase = "encode"
    /\ Last(hstack).t = "seq" => Last(hstack).cnt = Last(hstack).len
    /\ LET top == Last(hstack)
           v == IF top.t = "struct" THEN RecVal(top.f)
                ELSE SeqVal(top.len, top.e)
           e == Compound_end(CurEnc)
       IN  /\ Returned(e, IF Len(hstack) = 1 THEN <<>>
                          ELSE Attach(Pop(hstack), top.name, v))
           /\ hval' = IF Len(hstack) = 1 /\ IsOk(e) THEN v ELSE hval
    /\ last' = "end"
    /\ UNCHANGED <<header, root, calls, decVars>>

----------------------------------------------------------------------------
(* decode.rs: reads.  A read of n bytes at position p succeeds when the    *)
(* stream holds them; otherwise read_exact fails with UnexpectedEof, which *)
(* From<io::Error> turns into IncompleteNbtValue.                          *)

CanRead(src, p, n) == p + n <= Len(src)
Bytes(src, p, n) == SubSeq(src, p + 1, p + n)

\* String::from_utf8: whether bs, from index i on, is well-formed UTF-8.
RECURSIVE Utf8From(_, _)
Utf8From(bs, i) ==
    IF i > Len(bs) THEN TRUE
    ELSE
    LET b == bs[i]
        cont(j, lo, hi) == j <= Len(bs) /\ bs[j] >= lo /\ bs[j] <= hi
    IN  CASE b < 128 -> Utf8From(bs, i + 1)
          [] b >= 194 /\ b <= 223 ->
                cont(i + 1, 128, 191) /\ Utf8From(bs, i + 2)
          [] b >= 224 /\ b <= 239 ->
                /\ cont(i + 1, IF b = 224 THEN 160 ELSE 128,
                               IF b = 237 THEN 159 ELSE 191)
                /\ cont(i + 2, 128, 191)
                /\ Utf8From(bs, i + 3)
          [] b >= 240 /\ b <= 244 ->
                /\ cont(i + 1, IF b = 240 THEN 144 ELSE 128,
                               IF b = 244 THEN 143 ELSE 191)
                /\ cont(i + 2, 128, 191)
                /\ cont(i + 3, 128, 191)
                /\ Utf8From(bs, i + 4)
          [] OTHER -> FALSE

\* String::from_utf8: bytes below 128 alone are well-formed.
from_utf8(bs) == (\A i \in 1..Len(bs) : bs[i] < 128) \/ Utf8From(bs, 1)

\* What a read gives: the result, the position after it and the value read.
Got(r, p, v) == [r |-> r, p |-> p, v |-> v]
Eof(src) == Got(FromIoError("UnexpectedEof"), Len(src), NoVal)

\* read_bare_string
read_bare_string(src, p) ==
    IF ~CanRead(src, p, 2) THEN Eof(src)
    ELSE
    LET len == U16Of(Bytes(src, p, 2))
    IN  IF len = 0 THEN Got(Ok, p + 2, StrVal(<<>>))
        ELSE IF ~CanRead(src, p + 2, len) THEN Eof(src)
        ELSE IF ~from_utf8(Bytes(src, p + 2, len))
        THEN Got(InvalidUtf8, p + 2 + len, NoVal)
        ELSE Got(Ok, p + 2 + len, StrVal(Bytes(src, p + 2, len)))

\* A fixed-width read of n bytes, and the value made of them.
ReadFixed(src, p, n, kind) ==
    IF ~CanRead(src, p, n) THEN Eof(src)
    ELSE
    LET bs == Bytes(src, p, n)
    IN  Got(Ok, p + n,
            CASE kind = "I8"  -> IntVal("I8", ByteI8(bs[1]))
              [] kind = "I16" -> IntVal("I16", I16Of(bs))
              [] kind = "I32" -> IntVal("I32", I32Of(bs))
              [] kind = "I64" -> IF Fits32(bs)
                                 THEN IntVal("I64", I32Of(SubSeq(bs, 5, 8)))
                                 ELSE BitsVal("I64", bs)
              [] OTHER        -> BitsVal(kind, bs))

----------------------------------------------------------------------------
(* decode.rs: the cursors.  A cursor is a MapDecoder (its tag, and the     *)
(* key and the fields its visitor holds) or a SeqDecoder (its tag, length  *)
(* and current index, and the elements its visitor holds).  ty is the type *)
(* the cursor's visitor builds, given as a value of that type; NoVal is a  *)
(* type that takes whatever the tags say.                                  *)

DFrame(t, hasTag, tag, length, current, hasKey, key, f, e, ty) ==
    [t |-> t, hasTag |-> hasTag, tag |-> tag, length |-> length,
     current |-> current, hasKey |-> hasKey, key |-> key, f |-> f, e |-> e,
     ty |-> ty]

\* MapDecoder::new
MapDecoderNew == DFrame("map", FALSE, 0, 0, 0, FALSE, <<>>, <<>>, <<>>, NoVal)

\* SeqDecoder { tag, length, current: 0 }
SeqDecoderNew(tag, length) ==
    DFrame("seq", TRUE, tag, length, 0, FALSE, <<>>, <<>>, <<>>, NoVal)

\* The type of the value the visitor of cursor top asks for next: that of
\* the next field, or element, of the type it builds.
NextType(top) ==
    IF top.t = "map"
    THEN IF Len(top.f) < Len(top.ty.f) THEN top.ty.f[Len(top.f) + 1].val ELSE NoVal
    ELSE IF Len(top.e) < Len(top.ty.e) THEN top.ty.e[Len(top.e) + 1] ELSE NoVal

\* The deserializer method a type asks for.
WantOf(ty) ==
    CASE ty.k = "Unit" -> "unit_struct"
      [] ty.k = "Bool" -> "bool"
      [] OTHER         -> "any"

\* What a deserialize call gives: a result, the position after it, and either
\* a finished value or the cursor its visitor now drives.
Out(r, p, v, opens, cursor) ==
    [r |-> r, p |-> p, v |-> v, opens |-> opens, cursor |-> cursor]
Value(g) == Out(g.r, g.p, g.v, FALSE, MapDecoderNew)
Opens(p, cursor) == Out(Ok, p, NoVal, TRUE, cursor)

\* SeqDecoder::list: the element tag, then the length.
SeqDecoder_list(src, p) ==
    IF ~CanRead(src, p, 1) \/ ~CanRead(src, p + 1, 4) THEN Value(Eof(src))
    ELSE Opens(p + 5, SeqDecoderNew(Bytes(src, p, 1)[1], I32Of(Bytes(src, p + 1, 4))))

\* SeqDecoder::byte_array
SeqDecoder_byte_array(src, p) ==
    IF ~CanRead(src, p, 4) THEN Value(Eof(src))
    ELSE Opens(p + 4, SeqDecoderNew(1, I32Of(Bytes(src, p, 4))))

\* SeqDecoder::int_array
SeqDecoder_int_array(src, p) ==
    IF ~CanRead(src, p, 4) THEN Value(Eof(src))
    ELSE Opens(p + 4, SeqDecoderNew(3, I32Of(Bytes(src, p, 4))))

\* <&mut InnerDecoder as Deserializer>::deserialize: by the tag.
InnerDecoder_deserialize(src, tag, p) ==
    CASE tag = 1  -> Value(ReadFixed(src, p, 1, "I8"))
      [] tag = 2  -> Value(ReadFixed(src, p, 2, "I16"))
      [] tag = 3  -> Value(ReadFixed(src, p, 4, "I32"))
      [] tag = 4  -> Value(ReadFixed(src, p, 8, "I64"))
      [] tag = 5  -> Value(ReadFixed(src, p, 4, "F32"))
      [] tag = 6  -> Value(ReadFixed(src, p, 8, "F64"))
      [] tag = 7  -> SeqDecoder_byte_array(src, p)
      [] tag = 8  -> Value(read_bare_string(src, p))
      [] tag = 9  -> SeqDecoder_list(src, p)
      [] tag = 10 -> Opens(p, MapDecoderNew)
      [] tag = 11 -> SeqDecoder_int_array(src, p)
      [] OTHER    -> Value(Got(UnknownTag(tag), p, NoVal))

\* deserialize_bool that takes every non-zero byte for true.
InnerDecoder_deserialize_bool_nonzero(src, tag, p) ==
    IF tag = 1
    THEN IF ~CanRead(src, p, 1) THEN Value(Eof(src))
         ELSE Value(Got(Ok, p + 1,
                        BoolVal(IF Bytes(src, p, 1)[1] = 0 THEN 0 ELSE 1)))
    ELSE IF from_id(ByteI8(tag)).some
         THEN Value(Got(UnexpectedTag(from_id(ByteI8(tag)).kind, "I8"), p, NoVal))
         ELSE Value(Got(UnknownTag(tag), p, NoVal))

\* <&mut InnerDecoder as Deserializer>::deserialize_bool
InnerDecoder_deserialize_bool(src, tag, p) ==
    IF tag = 1
    THEN IF ~CanRead(src, p, 1) THEN Value(Eof(src))
         ELSE
         LET value == ByteI8(Bytes(src, p, 1)[1])
         IN  CASE value = 0 -> Value(Got(Ok, p + 1, BoolVal(0)))
               [] value = 1 -> Value(Got(Ok, p + 1, BoolVal(1)))
               [] OTHER     -> Value(Got(NonBooleanByte(value), p + 1, NoVal))
    ELSE IF from_id(ByteI8(tag)).some
         THEN Value(Got(UnexpectedTag(from_id(ByteI8(tag)).kind, "I8"), p, NoVal))
         ELSE Value(Got(UnknownTag(tag), p, NoVal))

\* <&mut InnerDecoder as Deserializer>::deserialize_unit_struct
InnerDecoder_deserialize_unit_struct(p) == Value(Got(Ok, p, UnitVal))

\* seed.deserialize(&mut InnerDecoder { tag }): what the host's type asks for.
HostDeserialize(src, want, tag, p) ==
    CASE want = "bool"        -> InnerDecoder_deserialize_bool(src, tag, p)
      [] want = "unit_struct" -> InnerDecoder_deserialize_unit_struct(p)
      [] OTHER                -> InnerDecoder_deserialize(src, tag, p)

\* The ends of the range of an i32.
MaxI32 == 2147483647
MinI32 == -2147483647 - 1

\* A decoder is [p, st, r, v]: its position, its cursors, the result so far
\* and the decoded root value.
Dec(p, st, r, v) == [p |-> p, st |-> st, r |-> r, v |-> v]

CurDec == Dec(pos, dstack, dres, dval)

\* A value v is handed to the visitor of the cursor on top of st: it becomes
\* the value of the pending key, or the next element (self.current += 1);
\* with no cursor left it is the value the decode call returns.
Deliver(p, st, v) ==
    IF st = <<>> THEN Dec(p, st, Ok, v)
    ELSE
    LET top == Last(st)
    IN  IF top.t = "map"
        THEN Dec(p, [st EXCEPT ![Len(st)].f = Append(@, [name |-> top.key, val |-> v]),
                               ![Len(st)].hasKey = FALSE,
                               ![Len(st)].key = <<>>],
                 Running, NoVal)
        ELSE Dec(p, [st EXCEPT ![Len(st)].e = Append(@, v),
                               ![Len(st)].current =
                                   IF @ = MaxI32 THEN MinI32 ELSE @ + 1],
                 Running, NoVal)

\* The decoder after a deserialize call made for the cursor on top of st.
After(st, o) ==
    IF o.r.e # "Ok" THEN Dec(o.p, st, o.r, NoVal)
    ELSE IF o.opens
    THEN Dec(o.p, Append(st, [o.cursor EXCEPT !.ty = NextType(Last(st))]),
             Running, NoVal)
    ELSE Deliver(o.p, st, o.v)

\* <&mut Decoder as Deserializer>::deserialize_unit_struct
Decoder_deserialize_unit_struct(d) == Dec(d.p, d.st, Ok, UnitVal)

\* deserialize_map that takes any first byte for the root's tag.
Decoder_deserialize_map_any_tag(src, d) ==
    IF ~CanRead(src, d.p, 1) THEN Dec(Eof(src).p, d.st, Eof(src).r, NoVal)
    ELSE LET name == read_bare_string(src, d.p + 1)
         IN  IF name.r.e # "Ok" THEN Dec(name.p, d.st, name.r, NoVal)
             ELSE Dec(name.p, <<[MapDecoderNew EXCEPT !.ty = d.v]>>, Running, NoVal)

\* deserialize_map that reads the root name's length and leaves its bytes.
Decoder_deserialize_map_name_left(src, d) ==
    IF ~CanRead(src, d.p, 1) THEN Dec(Eof(src).p, d.st, Eof(src).r, NoVal)
    ELSE IF ByteI8(Bytes(src, d.p, 1)[1]) = 10
    THEN IF ~CanRead(src, d.p + 1, 2) THEN Dec(Eof(src).p, d.st, Eof(src).r, NoVal)
         ELSE Dec(d.p + 3, <<[MapDecoderNew EXCEPT !.ty = d.v]>>, Running, NoVal)
    ELSE Dec(d.p + 1, d.st, NoRootCompound, NoVal)

\* <&mut Decoder as Deserializer>::deserialize_map
Decoder_deserialize_map(src, d) ==
    IF ~CanRead(src, d.p, 1) THEN Dec(Eof(src).p, d.st, Eof(src).r, NoVal)
    ELSE IF ByteI8(Bytes(src, d.p, 1)[1]) = 10
    THEN LET name == read_bare_string(src, d.p + 1)
         IN  IF name.r.e # "Ok" THEN Dec(name.p, d.st, name.r, NoVal)
             ELSE Dec(name.p, <<[MapDecoderNew EXCEPT !.ty = d.v]>>, Running, NoVal)
    ELSE Dec(d.p + 1, d.st, NoRootCompound, NoVal)

\* MapDecoder::visit_key_seed, and the visitor's return once it gives None.
visit_key_seed(src, d) ==
    IF ~CanRead(src, d.p, 1) THEN Dec(Eof(src).p, d.st, Eof(src).r, NoVal)
    ELSE
    LET tag == ByteI8(Bytes(src, d.p, 1)[1])
    IN  IF tag = 0
        THEN Deliver(d.p + 1, Pop(d.st), RecVal(Last(d.st).f))
        ELSE
        LET key == InnerDecoder_deserialize(src, 8, d.p + 1)
            tagged == [d.st EXCEPT ![Len(d.st)].hasTag = TRUE,
                                   ![Len(d.st)].tag = tag % 256]
        IN  IF key.r.e # "Ok" THEN Dec(key.p, tagged, key.r, NoVal)
            ELSE Dec(key.p, [tagged EXCEPT ![Len(d.st)].hasKey = TRUE,
                                           ![Len(d.st)].key = key.v.s],
                     Running, NoVal)

\* MapDecoder::visit_value_seed
visit_value_seed(src, d, want) ==
    LET top == Last(d.st)
    IN  IF ~top.hasTag THEN Dec(d.p, d.st, Panic("not implemented"), NoVal)
        ELSE After(d.st, HostDeserialize(src, want, top.tag, d.p))

\* SeqDecoder::visit_seed, and the visitor's return once it gives None.
visit_seed(src, d, want) ==
    LET top == Last(d.st)
    IN  IF top.current = top.length
        THEN Deliver(d.p, Pop(d.st), SeqVal(top.length, top.e))
        ELSE After(d.st, HostDeserialize(src, want, top.tag, d.p))

----------------------------------------------------------------------------
(* The decode call, one deserializer or cursor call at a time.             *)
(*                                                                         *)
(* The stream handed to the decoder is the bytes the encoder wrote or a    *)
(* proper prefix of them.  A prefix is read exactly as the whole is until  *)
(* the first call that reads past its end, so the length of the stream is  *)
(* chosen at that call: a call is made on the stream as it is, or on the   *)
(* stream cut inside the bytes the call reads.                             *)

\* The first n bytes of the stream.
Cut(n) == SubSeq(reader, 1, n)

\* The lengths the stream may have at a call that would end at position full.
StreamEnds(full) ==
    {Len(reader)} \cup
    (IF reader = writer THEN {n \in pos..(full - 1) : n < Len(reader)} ELSE {})

\* SeqDecoder::visit_seed's `self.current += 1` on an i32: past i32::MAX the
\* addition wraps in a build without overflow checks and panics in one with.
Overflowed(d) ==
    \E i \in 1..Len(d.st) :
        i <= Len(dstack) /\ dstack[i].current = MaxI32 /\ d.st[i].current = MinI32

Builds(d) ==
    IF Overflowed(d)
    THEN {d, Dec(d.p, d.st, Panic("attempt to add with overflow"), NoVal)}
    ELSE {d}

\* The decoder state after a call made on the first n bytes of the stream.
Decoded(n, d) ==
    \E b \in Builds(d) :
        /\ reader' = Cut(n)
        /\ pos' = b.p
        /\ dstack' = b.st
        /\ dres' = b.r
        /\ dval' = b.v
        /\ phase' = IF b.r.e = "Running" THEN "decode" ELSE "done"

\* The bytes the encoder wrote become the stream the decoder reads, and
\* the host decodes into the type of the value it encoded.
Transfer ==
    /\ phase = "encoded"
    /\ eres.e = "Ok"
    /\ reader' = writer
    /\ htype' = hval
    /\ phase' = "decode"
    /\ UNCHANGED <<encVars, pos, dstack, dres, dval>>

\* from_reader, into a record type.
DeserializeRoot ==
    /\ phase = "decode"
    /\ dstack = <<>>
    /\ pos = 0
    /\ htype.k # "Unit"
    /\ LET d == Dec(pos, dstack, dres, htype)
       IN  \E n \in StreamEnds(Decoder_deserialize_map(reader, d).p) :
               Decoded(n, Decoder_deserialize_map(Cut(n), d))
    /\ UNCHANGED <<encVars, htype>>

\* from_reader, into a unit struct type.
DeserializeUnitRoot ==
    /\ phase = "decode"
    /\ dstack = <<>>
    /\ pos = 0
    /\ htype.k = "Unit"
    /\ Decoded(Len(reader), Decoder_deserialize_unit_struct(CurDec))
    /\ UNCHANGED <<encVars, htype>>

\* The record's visitor asks for the next key.
VisitKey ==
    /\ phase = "decode"
    /\ dstack # <<>>
    /\ Last(dstack).t = "map"
    /\ ~Last(dstack).hasKey
    /\ \E n \in StreamEnds(visit_key_seed(reader, CurDec).p) :
           Decoded(n, visit_key_seed(Cut(n), CurDec))
    /\ UNCHANGED <<encVars, htype>>

\* The record's visitor asks for the value of the key it holds.
VisitValue(want) ==
    /\ phase = "decode"
    /\ dstack # <<>>
    /\ Last(dstack).t = "map"
    /\ Last(dstack).hasKey
    /\ \E n \in StreamEnds(visit_value_seed(reader, CurDec, want).p) :
           Decoded(n, visit_value_seed(Cut(n), CurDec, want))
    /\ UNCHANGED <<encVars, htype>>

\* The sequence's visitor asks for the next element.
VisitSeed(want) ==
    /\ phase = "decode"
    /\ dstack # <<>>
    /\ Last(dstack).t = "seq"
    /\ \E n \in StreamEnds(visit_seed(reader, CurDec, want).p) :
           Decoded(n, visit_seed(Cut(n), CurDec, want))
    /\ UNCHANGED <<encVars, htype>>

----------------------------------------------------------------------------
(* The specification: a host encodes a value, and the bytes written, or a  *)
(* prefix of them, are decoded into the type of that value.                *)

RootShapes == RootRejected \cup {"unit_struct", "map", "struct"}

Init ==
    /\ header \in RootHeaders
    /\ root = ""
    /\ writer = EncoderNew(header).w
    /\ cap = -1
    /\ wfail = FALSE
    /\ states = EncoderNew(header).s
    /\ eres = Running
    /\ hstack = <<>>
    /\ hval = NoVal
    /\ calls = 0
    /\ last = ""
    /\ phase = "start"
    /\ htype = NoVal
    /\ reader = <<>>
    /\ pos = 0
    /\ dstack = <<>>
    /\ dres = Running
    /\ dval = NoVal

Next ==
    \/ \E sh \in RootShapes : SerializeRoot(sh)
    \/ \E key \in Names, item \in Items : SerializeField(key, item)
    \/ \E item \in Items : SerializeElement(item)
    \/ End
    \/ Transfer
    \/ DeserializeRoot
    \/ DeserializeUnitRoot
    \/ VisitKey
    \/ VisitValue(WantOf(NextType(Last(dstack))))
    \/ VisitSeed(WantOf(NextType(Last(dstack))))

Spec == Init /\ [][Next]_vars

\* The encode call alone.
NextEnc ==
    \/ \E sh \in RootShapes : SerializeRoot(sh)
    \/ \E key \in Names, item \in Items : SerializeField(key, item)
    \/ \E item \in Items : SerializeElement(item)
    \/ End

SpecEnc == Init /\ [][NextEnc]_vars

\* The encode call on a stream that takes a number of bytes and then fails.
MaxCap == 12

InitIo ==
    /\ header \in RootHeaders
    /\ root = ""
    /\ writer = EncoderNew(header).w
    /\ cap \in 0..MaxCap
    /\ wfail = FALSE
    /\ states = EncoderNew(header).s
    /\ eres = Running
    /\ hstack = <<>>
    /\ hval = NoVal
    /\ calls = 0
    /\ last = ""
    /\ phase = "start"
    /\ htype = NoVal
    /\ reader = <<>>
    /\ pos = 0
    /\ dstack = <<>>
    /\ dres = Running
    /\ dval = NoVal

SpecIo == InitIo /\ [][NextEnc]_vars

----------------------------------------------------------------------------
(* The decoder alone, on a stream that did not come from the encoder, and  *)
(* a host that asks, value by value, for what its type says.               *)

\* The longest tail of bytes after the root header of a stream.
MaxTail == 5
\* A sequence's visitor is asked for at most this many elements.
MaxElems == 3

\* The bytes the tails are made of.
TailBytes == {0, 1, 2, 10, 255}

RECURSIVE SeqsUpTo(_, _)
SeqsUpTo(S, n) ==
    IF n = 0 THEN {<<>>}
    ELSE LET shorter == SeqsUpTo(S, n - 1)
         IN  shorter \cup {Append(s, b) : s \in {x \in shorter : Len(x) = n - 1}, b \in S}

RawStreams ==
    \* any first byte, alone or before one more byte
    {<<b>> \o t : b \in Byte, t \in SeqsUpTo(TailBytes, 1)}
    \* a root header and a tail
    \cup {<<10, 0, 0>> \o t : t \in SeqsUpTo(TailBytes, MaxTail)}
    \* a field tagged I8, with any payload byte
    \cup {<<10, 0, 0, 1, 0, 1, 97, b, 0>> : b \in Byte}
    \* an I8Array, and a List of I8, of one element, with any payload byte
    \cup {<<10, 0, 0, 7, 0, 0, 0, 0, 0, 1, b, 0>> : b \in Byte}
    \cup {<<10, 0, 0, 9, 0, 0, 1, 0, 0, 0, 1, b, 0>> : b \in Byte}

Wants == {"any", "bool", "unit_struct"}

InitRaw ==
    /\ header = [some |-> FALSE, name |-> <<>>]
    /\ root = ""
    /\ writer = <<>>
    /\ cap = -1
    /\ wfail = FALSE
    /\ states = <<>>
    /\ eres = Running
    /\ hstack = <<>>
    /\ hval = NoVal
    /\ calls = 0
    /\ last = ""
    /\ phase = "decode"
    /\ htype \in {NoVal, UnitVal}
    /\ reader \in RawStreams
    /\ pos = 0
    /\ dstack = <<>>
    /\ dres = Running
    /\ dval = NoVal

NextRaw ==
    \/ DeserializeRoot
    \/ DeserializeUnitRoot
    \/ VisitKey
    \/ \E want \in Wants : VisitValue(want)
    \/ \E want \in Wants :
          /\ dstack # <<>>
          /\ Len(Last(dstack).e) < MaxElems
          /\ VisitSeed(want)

SpecRaw == InitRaw /\ [][NextRaw]_vars

----------------------------------------------------------------------------
(* Properties of the encoder and the decoder.                              *)

ScalarKinds == {"I8", "I16", "I32", "I64", "F32", "F64", "String"}

\* v is made of scalars, strings and records only.
RECURSIVE RecordsOnly(_)
RecordsOnly(v) ==
    \/ v.k \in ScalarKinds
    \/ /\ v.k = "Compound"
       /\ \A i \in 1..Len(v.f) : RecordsOnly(v.f[i].val)

\* The decode call has returned, and it was made on all the encoder wrote.
DecodedWhole == phase = "done" /\ reader = writer

RECURSIVE WholeSequences(_)
WholeSequences(v) ==
    \/ v.k \in ScalarKinds
    \/ /\ v.k = "Compound"
       /\ \A i \in 1..Len(v.f) : WholeSequences(v.f[i].val)
    \/ /\ v.k = "List"
       /\ v.n > 0
       /\ Len(v.e) = v.n
       /\ \A i \in 1..Len(v.e) :
              v.e[i].k \in ScalarKinds \cup {"Compound"} /\ WholeSequences(v.e[i])

\* The root record has a field that is a sequence of elements of kind k.
HasSequenceOf(v, k) ==
    /\ v.k = "Compound"
    /\ \E i \in 1..Len(v.f) :
           v.f[i].val.k = "List" /\ v.f[i].val.e # <<>> /\ v.f[i].val.e[1].k = k

\* The kinds a sequence's elements are of: those framed as a List, and those
\* framed as an I8Array, an I32Array and an I64Array.
ListedKinds == {"I16", "F32", "F64", "String", "Compound"}
ArrayedKinds == {"I8", "I32", "I64"}

\* C2: a record with a field that is a non-empty homogeneous sequence, framed
\* as a List (elements I16, F32, F64, String, Compound) or as an I8Array,
\* I32Array or I64Array, decodes from the bytes written to the same elements
\* in the same order.
SequenceRoundTrip ==
    (/\ DecodedWhole
     /\ WholeSequences(hval)
     /\ \E k \in ListedKinds \cup ArrayedKinds : HasSequenceOf(hval, k))
        => (dres = Ok /\ dval = hval)

\* C2, but for the sequences of I64: what the decoder does give back.
SequenceRoundTripButI64 ==
    (/\ DecodedWhole
     /\ WholeSequences(hval)
     /\ \E k \in ListedKinds \cup ArrayedKinds : HasSequenceOf(hval, k)
     /\ ~HasSequenceOf(hval, "I64"))
        => (dres = Ok /\ dval = hval)

\* A sequence of I64 was encoded, and the decode call made on all the bytes
\* ends with the tag of the I64Array unknown.
SequenceOfI64Unknown ==
    (DecodedWhole /\ WholeSequences(hval) /\ HasSequenceOf(hval, "I64"))
        => (dres = UnknownTag(12) /\ dval = NoVal)

\* A 2-byte big-endian length and the bytes it counts.
Prefixed(s) == <<Len(s) \div 256, Len(s) % 256>> \o s

\* The w bytes of v in two's complement, most significant first.
RECURSIVE TwosComplement(_, _)
TwosComplement(v, w) ==
    IF w = 0 THEN <<>> ELSE Append(TwosComplement(v \div 256, w - 1), v % 256)

\* The tag IDs of the format, and the payload of a scalar or a string.
TagOf(k) ==
    CASE k = "I8" -> 1 [] k = "I16" -> 2 [] k = "I32" -> 3 [] k = "I64" -> 4
      [] k = "F32" -> 5 [] k = "F64" -> 6 [] k = "String" -> 8

PayloadOf(v) ==
    CASE v.k = "I8"  -> TwosComplement(v.n, 1)
      [] v.k = "I16" -> TwosComplement(v.n, 2)
      [] v.k = "I32" -> TwosComplement(v.n, 4)
      [] v.k = "I64" -> TwosComplement(v.n, 8)
      [] v.k \in {"F32", "F64"} -> v.s
      [] v.k = "String" -> Prefixed(v.s)

\* The fields of a record, one after the other: tag, name, payload.
RECURSIVE FieldsOf(_)
FieldsOf(f) ==
    IF f = <<>> THEN <<>>
    ELSE FieldsOf(Pop(f)) \o <<TagOf(Last(f).val.k)>> \o Prefixed(Last(f).name)
                          \o PayloadOf(Last(f).val)

\* The root record {"name": "Bananrama"}, and its bytes.
BananramaRecord == RecVal(<<[name |-> NameName, val |-> StrVal(Bananrama)]>>)
BananramaBytes ==
    <<10, 0, 0, 8, 0, 4, 110, 97, 109, 101, 0, 9,
      66, 97, 110, 97, 110, 114, 97, 109, 97, 0>>

\* A record whose fields are scalars and strings.
FlatRecord(v) ==
    v.k = "Compound" /\ \A i \in 1..Len(v.f) : v.f[i].val.k \in ScalarKinds

\* C3: a root record of scalar and string fields, once encoded, is exactly
\* byte 0x0A, the root name behind its 2-byte length (00 00 without one), then
\* for each field in emission order its tag ID, its name behind its 2-byte
\* length and its payload, then one 0x00 and nothing more; {"name":
\* "Bananrama"} without a root name is 0A 00 00 08 00 04 'name' 00 09
\* 'Bananrama' 00.
RecordFraming ==
    /\ (eres = Ok /\ FlatRecord(hval))
           => writer = <<10>> \o Prefixed(header.name) \o FieldsOf(hval.f) \o <<0>>
    /\ (eres = Ok /\ ~header.some /\ hval = BananramaRecord)
           => writer = BananramaBytes

\* {"name": "Bananrama"} was encoded without a root name.
RecordFramingWitness ==
    eres = Ok /\ ~header.some /\ hval = BananramaRecord /\ phase = "encoded"

RecordShapes == {"struct", "unit_struct"}

\* C5 as stated: every root shape but a record, a map among them, fails with
\* NoRootCompound and writes no bytes.
RootContractWithMap ==
    (phase = "encoded" /\ root \notin RecordShapes)
        => (eres = NoRootCompound /\ writer = <<>>)

\* C5, amended: every root shape but a record and a map fails with
\* NoRootCompound, a map fails with UnrepresentableType("map"), and neither
\* writes a byte; a record or a unit struct is taken, its header written.
RootContract ==
    /\ (phase = "encoded" /\ root \notin RecordShapes)
           => /\ writer = <<>>
              /\ eres = IF root = "map" THEN UnrepresentableType("map")
                        ELSE NoRootCompound
    /\ (phase # "start" /\ root \in RecordShapes)
           => /\ eres # NoRootCompound
              /\ Len(writer) >= 3 + Len(header.name)
              /\ SubSeq(writer, 1, 3 + Len(header.name))
                     = <<10>> \o Prefixed(header.name)

\* A map was handed over as the root and refused with nothing written.
RootContractWitness ==
    phase = "encoded" /\ root = "map" /\ writer = <<>> /\ eres.e = "UnrepresentableType"

\* The kind an item is of, for the items that have one.
KindOfItem(item) ==
    CASE item.sh = "i8"  -> "I8"
      [] item.sh = "i16" -> "I16"
      [] item.sh = "i32" -> "I32"
      [] item.sh = "i64" -> "I64"
      [] item.sh = "f32" -> "F32"
      [] item.sh = "f64" -> "F64"
      [] item.sh = "str" -> "String"
      [] item.sh \in {"struct", "unit_struct"} -> "Compound"
      [] item.sh = "seq" -> "List"
      [] OTHER -> "End"

KindedItems == {item \in Items : KindOfItem(item) # "End"}

\* C6: in a sequence whose first element committed the kind k, the call for
\* an element of another kind k' fails with HeterogenousList naming k as the
\* original and k' as the new kind, and writes no bytes.
Heterogeneity ==
    [][\A item \in KindedItems :
           (/\ SerializeElement(item)
            /\ Last(states).st = "InList"
            /\ KindOfItem(item) # Last(states).kind)
               => /\ eres'.e = "HeterogenousList"
                  /\ eres'.x = Last(states).kind
                  /\ eres'.y = KindOfItem(item)
                  /\ writer' = writer
                  /\ phase' = "encoded"]_vars

\* An I16 was refused in a sequence of I8.
HeterogeneityWitness ==
    /\ eres.e = "HeterogenousList"
    /\ eres.x = "I8"
    /\ eres.y = "I16"
    /\ phase = "encoded"
    /\ Last(hstack).t = "seq"
    /\ Last(hstack).cnt = 1

\* The encode call has returned, and the decode call was made on a proper
\* prefix of what the encoder wrote.
DecodedPrefix == phase = "done" /\ Len(reader) < Len(writer)

\* C7: the decode call made on a proper prefix, the empty one included, of the
\* bytes a decode of the whole stream consumes fails with IncompleteNbtValue,
\* not with NoRootCompound, UnknownTag or an I/O error, and not with success.
Truncation ==
    DecodedPrefix => (dres = IncompleteNbtValue /\ dval = NoVal)

\* A stream was cut inside a record nested in the root record.
TruncationWitness ==
    /\ DecodedPrefix
    /\ reader # <<>>
    /\ Len(dstack) = 2
    /\ dres = IncompleteNbtValue

\* The empty stream was decoded.
TruncationToNothing == DecodedPrefix /\ reader = <<>> /\ dres = IncompleteNbtValue

\* The value the visitor of the cursor on top of st was last given.
LastGiven(st) ==
    IF Last(st).t = "map" THEN Last(Last(st).f).val ELSE Last(Last(st).e)

\* The host's visitor asks the cursor on top, whose tag is I8 and which has
\* a value left to give, for a boolean.
BoolAsked ==
    /\ phase = "decode"
    /\ dstack # <<>>
    /\ Last(dstack).hasTag
    /\ Last(dstack).tag = 1
    /\ CanRead(reader, pos, 1)
    /\ \/ VisitValue("bool")
       \/ Last(dstack).current # Last(dstack).length /\ VisitSeed("bool")

\* C8: a boolean asked of a field or of an element whose tag is I8 reads one
\* payload byte; 0 gives false and 1 gives true, and any other byte b fails
\* with NonBooleanByte carrying b (as the i8 it was read as).
BooleanValidation ==
    [][BoolAsked =>
           LET b == reader[pos + 1]
           IN  /\ pos' = pos + 1
               /\ b \in {0, 1} =>
                      /\ dres' = Running
                      /\ Len(dstack') = Len(dstack)
                      /\ LastGiven(dstack') = BoolVal(b)
               /\ b \notin {0, 1} =>
                      /\ dres' = NonBooleanByte(IF b >= 128 THEN b - 256 ELSE b)
                      /\ phase' = "done"
                      /\ dval' = NoVal]_vars

\* The payload byte 2 of an element was refused.
BooleanValidationWitness ==
    /\ dres = NonBooleanByte(2)
    /\ phase = "done"
    /\ Last(dstack).t = "seq"
    /\ reader[pos] = 2

\* A true and a refusal of 0xFF came out of fields.
BooleanValidationTrue ==
    dstack # <<>> /\ Last(dstack).t = "map" /\ Last(dstack).f # <<>>
        /\ LastGiven(dstack) = BoolVal(1)
BooleanValidationMinusOne ==
    dres = NonBooleanByte(-1) /\ Last(dstack).t = "map"

\* An unsigned 8-bit value.
U8Item == Item("u8", 0, <<>>, 0)

\* A call that failed on a u8 and left the stream as it was.
RefusedU8 ==
    /\ eres'.e = "UnrepresentableType"
    /\ eres'.x = "u8"
    /\ writer' = writer
    /\ phase' = "encoded"

\* C9: the call for a u8, as the value of a field or as an element of a
\* sequence, fails with UnrepresentableType("u8") and writes no bytes: no tag,
\* no name, and no header of a sequence that is still pending.
UnrepresentableU8 ==
    [][/\ \A key \in Names : SerializeField(key, U8Item) => RefusedU8
       /\ SerializeElement(U8Item) => RefusedU8]_vars

\* A u8 was refused as the first element of a sequence field: the sequence
\* is still pending, and only the root's header is on the stream.
UnrepresentableU8Witness ==
    /\ eres.e = "UnrepresentableType"
    /\ eres.x = "u8"
    /\ Last(hstack).t = "seq"
    /\ Last(states).st = "List"
    /\ writer = <<10, 0, 0>>

\* A u8 was refused as the value of a field.
UnrepresentableU8Field ==
    eres.e = "UnrepresentableType" /\ eres.x = "u8" /\ Last(hstack).t = "struct"

\* v is made of scalars, strings, records and sequences of no elements.
RECURSIVE NoElements(_)
NoElements(v) ==
    \/ v.k \in ScalarKinds
    \/ v.k = "List" /\ v.n = 0 /\ v.e = <<>>
    \/ /\ v.k = "Compound"
       /\ \A i \in 1..Len(v.f) : NoElements(v.f[i].val)

\* The root record has an empty sequence for a field, and a field after it.
EmptyThenNext(v) ==
    /\ v.k = "Compound"
    /\ \E i \in 1..(Len(v.f) - 1) : v.f[i].val.k = "List"

\* The host ends a sequence field it declared of length 0.
EndOfEmpty ==
    /\ phase = "encode"
    /\ Len(hstack) >= 2
    /\ Last(hstack).t = "seq"
    /\ Last(hstack).len = 0
    /\ hstack[Len(hstack) - 1].t = "struct"
    /\ End

\* C10: a sequence field declared of length 0 and closed without an element
\* is written as the List tag 9, the field's name, the element kind 0 and the
\* 4-byte length 0, and no more; the decoder gives an empty sequence for
\* these bytes and goes on to the next field.
ZeroLengthSequence ==
    /\ [][EndOfEmpty =>
              /\ writer' = writer \o <<9>> \o Prefixed(Last(hstack).name)
                                  \o <<0, 0, 0, 0, 0>>
              /\ eres' = Running]_vars
    /\ []((DecodedWhole /\ NoElements(hval) /\ EmptyThenNext(hval))
              => (dres = Ok /\ dval = hval /\ pos = Len(reader)))

\* An empty sequence and the field after it came back.
ZeroLengthSequenceWitness ==
    /\ DecodedWhole
    /\ hval.k = "Compound"
    /\ Len(hval.f) = 2
    /\ hval.f[1].val = SeqVal(0, <<>>)
    /\ hval.f[2].val.k = "String"
    /\ dval = hval
    /\ SubSeq(writer, 4, 12) = <<9, 0, 1, 97, 0, 0, 0, 0, 0>>

\* An absent value.
NoneItem == Item("none", 0, <<>>, 0)

\* The host is in a record and has just handed over an absent field.
AfterAbsentField ==
    phase = "encode" /\ last = "none" /\ Last(hstack).t = "struct"

\* C11: in a record, the call for a field whose value is absent writes no
\* bytes and leaves the record's frame without a pending name, the encoder
\* being as it was before the call; the field after it, and the close of the
\* record, then succeed and write what they write without that field.
AbsentFieldElision ==
    /\ [][\A key \in Names :
              SerializeField(key, NoneItem)
                  => /\ writer' = writer
                     /\ states' = states
                     /\ Last(states') = InNamedNone
                     /\ hstack' = hstack
                     /\ eres' = Running]_vars
    /\ [][AfterAbsentField =>
              /\ \A key \in Names, item \in ScalarItems :
                     SerializeField(key, item)
                         => /\ eres' = Running
                            /\ writer' = writer \o
                                   FieldsOf(<<[name |-> key, val |-> ItemVal(item)]>>)
              /\ End => (eres' \in {Running, Ok} /\ writer' = writer \o <<0>>)]_vars
    /\ []((eres = Ok /\ FlatRecord(hval))
              => writer = <<10>> \o Prefixed(header.name) \o FieldsOf(hval.f) \o <<0>>)

\* An absent field was elided after a field that was written.
AbsentFieldElisionWitness ==
    /\ AfterAbsentField
    /\ Len(hstack) = 1
    /\ Len(Last(hstack).f) = 1
    /\ Last(states) = InNamedNone

\* A write to the stream fails in this step.
WriteFails == ~wfail /\ wfail'

\* C12: when a write to the stream fails, of a tag, a name, a payload, the
\* 4-byte length of a sequence or a terminator, the call ends there with the
\* stream's I/O error: no later write, no later change of the frames.
FailFast ==
    [][WriteFails => (eres'.e = "Io" /\ phase' = "encoded")]_vars

\* C12 for every write but the one of a sequence's header, whose last write
\* is the 4-byte length.
FailFastButHeader ==
    [][(WriteFails /\ Last(states).st # "List")
           => (eres'.e = "Io" /\ phase' = "encoded")]_vars

\* The write of a sequence's length failed, and the call returned as if it
\* had not: the encode goes on, the sequence's frames pushed.
LengthFailureDropped ==
    /\ wfail
    /\ phase = "encode"
    /\ eres = Running
    /\ Last(states).st \in {"InNamed", "InList"}

\* The tag ID of the kind of an element.
ElemTag(k) == IF k = "Compound" THEN 10 ELSE TagOf(k)

\* The header of a sequence field: the container's ID, the field's name, the
\* elements' tag ID for a generic List only, and the declared length.
SeqHeader(name, k, len) ==
    CASE k = "I8"  -> <<7>> \o Prefixed(name) \o TwosComplement(len, 4)
      [] k = "I32" -> <<11>> \o Prefixed(name) \o TwosComplement(len, 4)
      [] k = "I64" -> <<12>> \o Prefixed(name) \o TwosComplement(len, 4)
      [] OTHER     -> <<9>> \o Prefixed(name) \o <<ElemTag(k)>>
                          \o TwosComplement(len, 4)

\* The items that commit a kind on their own: all but sequences.
ElementItems == {item \in KindedItems : item.sh # "seq"}

\* What the call for an element writes after the header, if any: a scalar's
\* payload, nothing yet for a record, the terminator of a record without fields.
ElementBytes(item) ==
    CASE item.sh = "struct"      -> <<>>
      [] item.sh = "unit_struct" -> <<0>>
      [] OTHER                   -> PayloadOf(ItemVal(item))

\* C13: for a sequence that is a named field, the call that opens it writes
\* no byte; the call for its first element, of kind t, writes the header
\* once (the ID of list_container(t), the name behind its 2-byte length, the
\* tag ID of t only under the generic List, the 4-byte big-endian declared
\* length) and then the element; the call for a later element writes the
\* element only; the close of the sequence writes nothing and pops its frame.
SequenceHeader ==
    [][/\ \A key \in Names, len \in 0..MaxSeqLen :
              SerializeField(key, Item("seq", 0, <<>>, len))
                  => /\ writer' = writer
                     /\ Last(states') = ListSome(key, len)
       /\ \A item \in ElementItems :
              /\ (/\ SerializeElement(item)
                  /\ Last(states).st = "List"
                  /\ Last(states).hasName)
                     => /\ eres' = Running
                        /\ writer' = writer
                               \o SeqHeader(Last(states).name, KindOfItem(item),
                                            Last(states).len)
                               \o ElementBytes(item)
              /\ (/\ SerializeElement(item)
                  /\ Last(states).st = "InList"
                  /\ Last(states).kind = KindOfItem(item))
                     => /\ eres' = Running
                        /\ writer' = writer \o ElementBytes(item)
       /\ (phase = "encode" /\ Last(states).st = "InList" /\ End)
              => /\ writer' = writer
                 /\ states' = Pop(states)
                 /\ eres' = Running]_vars

\* The second I8 of the sequence field "a" was written behind the first and
\* the one header.
SequenceHeaderWitness ==
    /\ phase = "encode"
    /\ last = "i8"
    /\ Last(states) = InList("I8")
    /\ Last(hstack).cnt = 2
    /\ writer = <<10, 0, 0, 7, 0, 1, 97, 0, 0, 0, 2, 254, 254>>

\* A sequence of I16 was closed behind its two elements.
SequenceHeaderClosed ==
    /\ phase = "encode"
    /\ last = "end"
    /\ writer = <<10, 0, 0, 9, 0, 1, 97, 2, 0, 0, 0, 2, 1, 2, 1, 2>>

\* Every sequence of v holds as many elements as it declared.
RECURSIVE DeclaredLengthsMet(_)
DeclaredLengthsMet(v) ==
    /\ \A i \in 1..Len(v.f) : DeclaredLengthsMet(v.f[i].val)
    /\ v.k = "List" => Len(v.e) = v.n
    /\ \A i \in 1..Len(v.e) : DeclaredLengthsMet(v.e[i])

\* C14: once the encode has succeeded every sequence, opened with the
\* declared length n, has had exactly n element payloads written, whatever
\* the calls were, absent elements included.
DeclaredLength ==
    eres = Ok => DeclaredLengthsMet(hval)

\* The call for an absent element of a sequence succeeds, writes nothing and
\* changes no frame, and is one of the calls the declared length counts.
AbsentElementCounted ==
    [][SerializeElement(NoneItem)
           => /\ writer' = writer
              /\ states' = states
              /\ eres' = Running
              /\ Last(hstack').cnt = Last(hstack).cnt + 1
              /\ Last(hstack').e = Last(hstack).e]_vars

\* {"a": [-2, absent]} was encoded: the I8Array declares 2 and holds 1.
ShortSequenceWritten ==
    /\ eres = Ok
    /\ hval = RecVal(<<[name |-> NameA, val |-> SeqVal(2, <<IntVal("I8", -2)>>)]>>)
    /\ writer = <<10, 0, 0, 7, 0, 1, 97, 0, 0, 0, 2, 254, 0>>

\* The call is for the first element of a sequence that is itself an element
\* of a sequence: the frame on top is a pending List without a name.
FirstOfNested(item) ==
    /\ SerializeElement(item)
    /\ Last(states).st = "List"
    /\ ~Last(states).hasName

\* C15: the call for the first element, of kind t, of a sequence nested
\* directly in a sequence writes the ID of list_container(t), an empty name,
\* the tag ID of t under a generic List and the 4-byte length, leaves
\* InList{t} in place of the pending frame and succeeds.
NestedSequenceHeader ==
    [][\A item \in ElementItems :
           FirstOfNested(item)
               => /\ eres' = Running
                  /\ writer' = writer
                         \o SeqHeader(<<>>, KindOfItem(item), Last(states).len)
                         \o ElementBytes(item)
                  /\ \E i \in 1..Len(states') :
                         states'[i] = InList(KindOfItem(item))]_vars

\* What the call does: it panics at unimplemented!() and writes nothing.
NestedSequenceUnimplemented ==
    [][\A item \in ElementItems :
           FirstOfNested(item)
               => /\ eres' = Panic("not implemented")
                  /\ writer' = writer
                  /\ phase' = "encoded"]_vars

\* {"a": [[-2]]}: the I8 of the inner sequence was handed over.
NestedSequencePanicked ==
    /\ eres = Panic("not implemented")
    /\ last = "i8"
    /\ Len(hstack) = 3
    /\ writer = <<10, 0, 0>>

\* The host closes what it is in while the frame on top is an InList.
CloseOverInList ==
    phase = "encode" /\ Last(states).st = "InList" /\ End

\* C16 as stated: the close over a committed InList{kind} first commits End
\* with specify_kind(End), then pops the frame, and succeeds.
CloseCommitsEnd ==
    [][CloseOverInList
           => LET e == specify_kind(CurEnc, "End")
              IN  /\ IsOk(e)
                  /\ writer' = e.w
                  /\ states' = Pop(e.s)
                  /\ eres' = Running]_vars

\* C16: the close over a committed InList{kind} pops that frame and nothing
\* else, writes nothing and succeeds; End is committed first only when the
\* frame on top is a pending List, whose header is then written with End as
\* the kind of its elements.
CloseOverCommitted ==
    [][/\ CloseOverInList
              => /\ writer' = writer
                 /\ states' = Pop(states)
                 /\ eres' = Running
       /\ (/\ phase = "encode"
           /\ Last(states).st = "List"
           /\ Last(states).hasName
           /\ End)
              => /\ writer' = writer \o <<9>> \o Prefixed(Last(states).name)
                                     \o <<0>> \o TwosComplement(Last(states).len, 4)
                 /\ states' = Append(Pop(states), InNamedNone)
                 /\ eres' = Running]_vars

\* The sequence [-2] of I8 was closed: nothing was written behind its element
\* and the record's frame is on top again.
CloseOverCommittedWitness ==
    /\ phase = "encode"
    /\ last = "end"
    /\ Last(states) = InNamedNone
    /\ Len(hstack) = 1
    /\ writer = <<10, 0, 0, 7, 0, 1, 97, 0, 0, 0, 1, 254>>

----------------------------------------------------------------------------
(* The encoder's methods one by one, in any order: a caller that does not  *)
(* keep to the order the two serializers call them in.                     *)

\* The number of method calls made on one encoder.
MaxOps == 4

InitOps ==
    /\ header \in RootHeaders
    /\ root = ""
    /\ writer = EncoderNew(header).w
    /\ cap = -1
    /\ wfail = FALSE
    /\ states = EncoderNew(header).s
    /\ eres = Running
    /\ hstack = <<>>
    /\ hval = NoVal
    /\ calls = 0
    /\ last = ""
    /\ phase = "ops"
    /\ htype = NoVal
    /\ reader = <<>>
    /\ pos = 0
    /\ dstack = <<>>
    /\ dres = Running
    /\ dval = NoVal

\* The encoder after a method call: a call that fails is the last one.
Called(e, method) ==
    /\ phase = "ops"
    /\ calls < MaxOps
    /\ calls' = calls + 1
    /\ writer' = e.w
    /\ states' = e.s
    /\ eres' = e.r
    /\ phase' = IF IsOk(e) THEN "ops" ELSE "failed"
    /\ last' = method
    /\ UNCHANGED <<header, root, cap, wfail, hstack, hval, decVars>>

CallSpecifyName(name) == Called(specify_name(CurEnc, name), "specify_name")
CallSpecifyKind(tag) == Called(specify_kind(CurEnc, tag), "specify_kind")
CallOpenList(len) == Called(open_list(CurEnc, len), "open_list")
CallCancelName == Called(cancel_name(CurEnc), "cancel_name")
CallCloseLevel == Called(close_level(CurEnc), "close_level")

NextOps ==
    \/ \E name \in Names : CallSpecifyName(name)
    \/ \E tag \in KindSet : CallSpecifyKind(tag)
    \/ \E len \in 0..MaxSeqLen : CallOpenList(len)
    \/ CallCancelName
    \/ CallCloseLevel

SpecOps == InitOps /\ [][NextOps]_vars

\* The frame on top is a record's, with or without a pending name.
NamePending == states # <<>> /\ Last(states).st = "InNamed" /\ Last(states).hasName
NoNamePending == states # <<>> /\ Last(states).st = "InNamed" /\ ~Last(states).hasName
InSequence == states # <<>> /\ Last(states).st \in {"List", "InList"}

\* The call was refused: it panicked and wrote nothing.
Refused == eres'.e = "Panic" /\ phase' = "failed" /\ writer' = writer

\* C17: in a record a name and a value alternate.  A name is taken only
\* when none is pending and is then pending; a value's kind is taken only
\* when a name is pending, writes the tag and that name and leaves none
\* pending.  Each call out of turn is refused without a byte written: a kind
\* with no name pending, a name with a name pending, a name with a
\* sequence's frame on top, a close with a name pending.
NamingProtocol ==
    [][/\ \A name \in Names :
              /\ (NoNamePending /\ CallSpecifyName(name))
                     => /\ eres' = Running
                        /\ writer' = writer
                        /\ states' = Append(Pop(states), InNamedSome(name))
              /\ (NamePending /\ CallSpecifyName(name)) => Refused
              /\ (InSequence /\ CallSpecifyName(name)) => Refused
       /\ \A tag \in KindSet \ {"List", "I8Array", "I32Array", "I64Array"} :
              /\ (NoNamePending /\ CallSpecifyKind(tag)) => Refused
              /\ (NamePending /\ CallSpecifyKind(tag))
                     => /\ eres' = Running
                        /\ writer' = writer \o <<to_id(tag)>>
                                            \o Prefixed(Last(states).name)
                        /\ states'[Len(states)] = InNamedNone
       /\ (NamePending /\ CallCloseLevel) => Refused]_vars

\* A second name was refused after a field had been written.
NamingProtocolWitness ==
    /\ phase = "failed"
    /\ last = "specify_name"
    /\ eres = Panic("key name specified twice")
    /\ Len(writer) > 3

\* A record was closed with a name pending, and a kind given without a name.
NamingProtocolClose ==
    /\ last = "close_level"
    /\ eres = Panic("key name specified without value")

NamingProtocolKind ==
    /\ last = "specify_kind"
    /\ eres = Panic("value specified without key name")

\* The stream after the step holds the bytes it held, followed by any new ones.
Appended ==
    /\ Len(writer') >= Len(writer)
    /\ SubSeq(writer', 1, Len(writer)) = writer

\* C18: every call of the encoder leaves the bytes already written where
\* they are and appends zero or more; a call that fails, by an error, a panic
\* or a failed write, leaves every byte written before it on the stream.
AppendOnly ==
    [][Appended]_vars

\* A write failed with bytes on the stream: they are all still there.
AppendOnlyWitness ==
    /\ phase = "encoded"
    /\ eres.e = "Io"
    /\ wfail
    /\ cap > 3
    /\ Len(writer) = cap

\* A call failed without a write, behind bytes written by earlier calls.
AppendOnlyRefused ==
    /\ phase = "encoded"
    /\ eres.e = "HeterogenousList"
    /\ ~wfail
    /\ Len(writer) > 3

----------------------------------------------------------------------------
(* The encode call and the decode call as functions of the value, the root *)
(* name and the stream: the calls of the traversal made one after another. *)

\* The item the host hands over for the value v.
ItemOf(v) ==
    CASE v.k = "I8"  -> Item("i8", v.n, <<>>, 0)
      [] v.k = "I16" -> Item("i16", v.n, <<>>, 0)
      [] v.k = "I32" -> Item("i32", v.n, <<>>, 0)
      [] v.k = "I64" -> Item("i64", v.n, <<>>, 0)
      [] v.k = "F32" -> Item("f32", 0, v.s, 0)
      [] v.k = "F64" -> Item("f64", 0, v.s, 0)
      [] v.k = "String" -> Item("str", 0, v.s, 0)
      [] v.k = "Unit" -> Item("unit_struct", 0, <<>>, 0)
      [] v.k = "Compound" -> Item("struct", 0, <<>>, 0)
      [] v.k = "List" -> Item("seq", 0, <<>>, v.n)

\* The encoder after the calls for the fields f[i..] of a record, for the
\* elements s[i..] of a sequence, and for what a record or a sequence holds.
RECURSIVE EmitFields(_, _, _)
RECURSIVE EmitElements(_, _, _)
RECURSIVE EmitInside(_, _)
EmitFields(e, f, i) ==
    IF i > Len(f) THEN e
    ELSE EmitFields(EmitInside(serialize_field(e, f[i].name, ItemOf(f[i].val)),
                               f[i].val),
                    f, i + 1)

EmitElements(e, s, i) ==
    IF i > Len(s) THEN e
    ELSE EmitElements(EmitInside(serialize_element(e, ItemOf(s[i])), s[i]), s, i + 1)

EmitInside(e, v) ==
    CASE v.k = "Compound" -> Compound_end(EmitFields(e, v.f, 1))
      [] v.k = "List"     -> Compound_end(EmitElements(e, v.e, 1))
      [] OTHER            -> e

\* to_writer(dst, v, hdr) for a record v.
EncodeRecord(v, hdr) ==
    Compound_end(EmitFields(Encoder_serialize_struct(EncoderNew(hdr)), v.f, 1))

\* The next call of the decode, by the cursor on top.
DecodeStep(src, d) ==
    IF d.st = <<>> THEN Decoder_deserialize_map(src, d)
    ELSE IF Last(d.st).t = "map"
    THEN IF ~Last(d.st).hasKey
         THEN visit_key_seed(src, d)
         ELSE visit_value_seed(src, d, WantOf(NextType(Last(d.st))))
    ELSE visit_seed(src, d, WantOf(NextType(Last(d.st))))

RECURSIVE DecodeRun(_, _)
DecodeRun(src, d) ==
    IF d.r.e # "Running" THEN d ELSE DecodeRun(src, DecodeStep(src, d))

\* from_reader(src) into the type of the record ty.
DecodeRecord(src, ty) == DecodeRun(src, DecodeStep(src, Dec(0, <<>>, Running, ty)))

\* Root names: none, the empty one, and names whose bytes are tags and
\* lengths elsewhere in the stream.
RootNames ==
    RootHeaders \cup {[some |-> TRUE, name |-> <<>>],
                      [some |-> TRUE, name |-> <<10, 0>>],
                      [some |-> TRUE, name |-> <<0, 1, 97>>]}

----------------------------------------------------------------------------
(* write_bare_string and read_bare_string alone: a string is written to an *)
(* empty stream, and the stream, with some bytes behind the string, is     *)
(* handed over and read.  The string to write is kept as a pattern and a   *)
(* length: the pattern repeated up to that length.                         *)

\* The longest of the short strings.
MaxStr == 3

\* The lengths of the long strings, around the two ends of the 16-bit range.
LongLengths == {255, 256, 65535, 65536, 65537}

\* The n bytes that repeat the pattern s.
Repeat(s, n) == [i \in 1..n |-> s[((i - 1) % Len(s)) + 1]]

\* The strings written: every string of up to MaxStr of three one-byte
\* characters, two with characters of two and three bytes, and long ones.
Strings ==
    {Val("String", Len(s), s, <<>>, <<>>) :
        s \in SeqsUpTo({0, 97, 127}, MaxStr)
              \cup {<<195, 169>>, <<97, 226, 130, 172>>}}
    \cup {Val("String", n, <<97>>, <<>>, <<>>) : n \in LongLengths}

\* The string of the current state, and its length in bytes.
Given == Repeat(hval.s, hval.n)
L == hval.n

\* The bytes that follow the string on the stream that is read.
Followers == {<<>>, <<0>>, <<0, 1, 97>>}

InitStr ==
    /\ header = [some |-> FALSE, name |-> <<>>]
    /\ root = ""
    /\ writer = <<>>
    /\ cap = -1
    /\ wfail = FALSE
    /\ states = <<>>
    /\ eres = Running
    /\ hstack = <<>>
    /\ hval \in Strings
    /\ calls = 0
    /\ last = ""
    /\ phase = "string"
    /\ htype = NoVal
    /\ reader = <<>>
    /\ pos = 0
    /\ dstack = <<>>
    /\ dres = Running
    /\ dval = NoVal

\* write_bare_string(&mut dst, value) on the empty stream.
WriteString ==
    /\ phase = "string"
    /\ LET e == write_bare_string(CurEnc, Given)
       IN  writer' = e.w /\ eres' = IF IsOk(e) THEN Ok ELSE e.r
    /\ phase' = "written"
    /\ last' = "write_bare_string"
    /\ UNCHANGED <<header, root, cap, wfail, states, hstack, hval, calls, decVars>>

\* read_bare_string(&mut src) on the bytes written and what follows them.
ReadString(follow) ==
    /\ phase = "written"
    /\ reader' = writer \o follow
    /\ writer' = <<>>
    /\ LET g == read_bare_string(reader', 0)
       IN  pos' = g.p /\ dres' = g.r /\ dval' = g.v
    /\ phase' = "read"
    /\ last' = "read_bare_string"
    /\ UNCHANGED <<header, root, cap, wfail, states, eres, hstack, hval, calls,
                   htype, dstack>>

NextStr ==
    \/ WriteString
    \/ \E follow \in Followers : ReadString(follow)

SpecStr == InitStr /\ [][NextStr]_vars

\* The two bytes of L mod 2^16, most significant first.
LengthPrefix == <<(L % 65536) \div 256, (L % 65536) % 256>>

\* C20: a string of L bytes is written as the two bytes of L mod 2^16, most
\* significant first, and its L bytes.  For L <= 65535 the string is read
\* back as it was, the read ending behind its last byte; for L = 0 the
\* bytes are 00 00 and the read gives the empty string and ends behind them.
StringPrefix ==
    /\ phase = "written"
           => /\ eres = Ok
              /\ writer = LengthPrefix \o Given
              /\ L = 0 => writer = <<0, 0>>
    /\ phase = "read"
           => /\ SubSeq(reader, 1, 2 + L) = LengthPrefix \o Given
              /\ SubSeq(reader, 3 + L, Len(reader)) \in Followers
    /\ (phase = "read" /\ L <= 65535)
           => /\ dres = Ok
              /\ dval = StrVal(Given)
              /\ pos = 2 + L

\* A string of exactly 65535 bytes was read back, bytes behind it on the stream.
StringPrefixWitness ==
    /\ phase = "read"
    /\ L = 65535
    /\ Len(reader) = 65540
    /\ dres = Ok
    /\ Len(dval.s) = 65535

\* The empty string was read back from 00 00 and the bytes behind it.
StringPrefixEmpty ==
    /\ phase = "read"
    /\ L = 0
    /\ reader = <<0, 0, 0, 1, 97>>
    /\ dval = StrVal(<<>>)
    /\ pos = 2

\* A string of 65537 bytes was written behind the prefix 00 01 and read
\* back as its first byte.
StringPrefixWrapped ==
    /\ phase = "read"
    /\ L = 65537
    /\ SubSeq(reader, 1, 2) = <<0, 1>>
    /\ dval = StrVal(<<97>>)
    /\ pos = 3

----------------------------------------------------------------------------
\* Records and sequences the host may open and close next, whatever it is in.
Levels ==
    {UnitVal,
     RecVal(<<>>),
     RecVal(<<[name |-> NameA, val |-> IntVal("I8", -2)]>>),
     RecVal(<<[name |-> NameA, val |-> SeqVal(1, <<UnitVal>>)]>>),
     SeqVal(0, <<>>),
     SeqVal(1, <<IntVal("I8", -2)>>),
     SeqVal(1, <<RecVal(<<>>)>>)}

\* The encoder once the host, from the current state, has opened v, visited
\* what it holds and closed it.
OpenedAndClosed(v) ==
    IF Last(hstack).t = "struct"
    THEN EmitInside(serialize_field(CurEnc, NameA, ItemOf(v)), v)
    ELSE EmitInside(serialize_element(CurEnc, ItemOf(v)), v)

\* An operation of the encoder may start: the frames hold a record's at the bottom.
RecordAtBottom ==
    phase \in {"start", "encode"} => (states # <<>> /\ states[1].st = "InNamed")

\* The successful encode of a root record leaves the one frame InNamed{None}.
OneFrameLeft ==
    (phase = "encoded" /\ eres = Ok) => states = <<InNamedNone>>

\* The record v is the first element to give a kind to the pending sequence
\* on top: its open writes the sequence's header and pushes the sequence's frame.
CommitsSequence(v) ==
    Last(states).st = "List" /\ v.k \in {"Compound", "Unit"}

\* C21 as stated: the frames are never empty when an operation starts and a
\* record's frame is at the bottom; one frame, InNamed{None}, is left by a
\* successful encode; opening and successfully closing a record or a
\* sequence leaves as many frames as there were before the open.
FrameBalanceAlways ==
    /\ RecordAtBottom
    /\ OneFrameLeft
    /\ phase = "encode"
           => \A v \in Levels :
                  IsOk(OpenedAndClosed(v))
                      => Len(OpenedAndClosed(v).s) = Len(states)

\* C21: the same, but that a record opened as the first kinded element of a
\* sequence leaves one frame more when it is closed, and the very frames
\* there were otherwise: the frame pushed is the sequence's, InList{Compound},
\* which the close of the sequence pops.
FrameBalance ==
    /\ RecordAtBottom
    /\ OneFrameLeft
    /\ phase = "encode"
           => \A v \in Levels :
                  LET e == OpenedAndClosed(v)
                  IN  IsOk(e)
                          => IF CommitsSequence(v)
                             THEN /\ Len(e.s) = Len(states) + 1
                                  /\ Last(e.s) = InList("Compound")
                             ELSE e.s = states

\* A record, the first element of the sequence field "a", was opened and
\* closed: two frames before its open, three after its close.
FrameBalanceWitness ==
    /\ phase = "encode"
    /\ last = "end"
    /\ Len(hstack) = 2
    /\ Last(hstack).t = "seq"
    /\ Last(hstack).e = <<RecVal(<<>>)>>
    /\ states = <<InNamedNone, InNamedNone, InList("Compound")>>

\* A sequence field was opened and closed in the root record: the frames
\* are those of the root record between two fields.
FrameBalanceSequence ==
    /\ phase = "encode"
    /\ last = "end"
    /\ Len(hstack) = 1
    /\ Len(Last(hstack).f) = 1
    /\ Last(hstack).f[1].val.k = "List"
    /\ states = <<InNamedNone, InNamedNone>>

----------------------------------------------------------------------------
\* The kinds of sequences.
ListLike == {"List", "I8Array", "I32Array", "I64Array"}

\* The frame on top is that of a sequence whose elements have a kind.
InListOnTop == states # <<>> /\ Last(states).st = "InList"

\* C22: no InList frame ever holds a kind of sequence; so open_list, called
\* with an InList frame on top, fails with HeterogenousList naming the
\* frame's kind as the original and List as the new kind, writes nothing,
\* and pushes no pending List.
NoListOfLists ==
    /\ [](\A i \in 1..Len(states) :
              states[i].st = "InList" => states[i].kind \notin ListLike)
    /\ [][\A len \in 0..MaxSeqLen :
              (InListOnTop /\ CallOpenList(len))
                  => /\ eres'.e = "HeterogenousList"
                     /\ eres'.x = Last(states).kind
                     /\ eres'.y = "List"
                     /\ phase' = "failed"
                     /\ writer' = writer
                     /\ states' = Pop(states)]_vars

\* open_list was refused in a sequence of I8.
NoListOfListsWitness ==
    /\ phase = "failed"
    /\ last = "open_list"
    /\ eres.e = "HeterogenousList"
    /\ eres.x = "I8"
    /\ eres.y = "List"
    /\ Len(writer) > 3

----------------------------------------------------------------------------
(* The decoder on streams whose one field is a sequence of negative        *)
(* declared length.                                                        *)

\* A sequence's visitor is asked this many times at the most, a run of
\* calls for unit structs counting as one.
MaxAsked == 6

\* The negative lengths, as the four bytes of the stream.
NegativeLengths == {<<255, 255, 255, 255>>, <<255, 255, 255, 254>>, <<128, 0, 0, 0>>}

\* The streams: a root header, a List, I8Array or I32Array field "a" of
\* negative length, and up to two more bytes.
NegativeStreams ==
    {<<10, 0, 0>> \o h \o len \o tail :
        h \in {<<7, 0, 1, 97>>, <<11, 0, 1, 97>>, <<9, 0, 1, 97, 1>>,
               <<9, 0, 1, 97, 0>>, <<9, 0, 1, 97, 10>>},
        len \in NegativeLengths,
        tail \in SeqsUpTo({0, 1, 255}, 2)}

InitNeg ==
    /\ header = [some |-> FALSE, name |-> <<>>]
    /\ root = ""
    /\ writer = <<>>
    /\ cap = -1
    /\ wfail = FALSE
    /\ states = <<>>
    /\ eres = Running
    /\ hstack = <<>>
    /\ hval = NoVal
    /\ calls = 0
    /\ last = ""
    /\ phase = "decode"
    /\ htype = NoVal
    /\ reader \in NegativeStreams
    /\ pos = 0
    /\ dstack = <<>>
    /\ dres = Running
    /\ dval = NoVal

\* The runs a visitor is asked for: up to the end of the sequence when it
\* lies ahead, up to the last index of an i32 when it does not.
RunsFrom(top) ==
    {n \in (IF top.current < top.length /\ (top.current >= 0 \/ top.length < 0)
            THEN {top.length - top.current}
            ELSE IF top.current >= 0 /\ top.length < top.current
            THEN {MaxI32 - top.current}
            ELSE {}) : n > 1}

\* n unit structs, as one element of the elements a visitor holds.
UnitRun(n) == Val("Unit", n, <<>>, <<>>, <<>>)

\* The sequence's visitor asks n times in a row for a unit struct, each call
\* short of the end of the sequence and of i32::MAX: each call is
\* visit_seed, whose deserialize_unit_struct reads nothing and succeeds,
\* and adds one to current.
VisitSeedUnits(n) ==
    /\ phase = "decode"
    /\ dstack # <<>>
    /\ Last(dstack).t = "seq"
    /\ n \in RunsFrom(Last(dstack))
    /\ dstack' = [dstack EXCEPT ![Len(dstack)].current = @ + n,
                                ![Len(dstack)].e = Append(@, UnitRun(n))]
    /\ UNCHANGED <<encVars, htype, reader, pos, dres, dval, phase>>

NextNeg ==
    \/ DeserializeRoot
    \/ VisitKey
    \/ \E want \in Wants : VisitValue(want)
    \/ \E want \in Wants :
          /\ dstack # <<>>
          /\ Len(Last(dstack).e) < MaxAsked
          /\ VisitSeed(want)
    \/ /\ dstack # <<>>
       /\ Len(Last(dstack).e) < MaxAsked
       /\ \E n \in RunsFrom(Last(dstack)) : VisitSeedUnits(n)

SpecNeg == InitNeg /\ [][NextNeg]_vars

\* The value v holds a sequence of negative declared length.
RECURSIVE HasNegativeLength(_)
HasNegativeLength(v) ==
    \/ v.k = "List" /\ v.n < 0
    \/ \E i \in 1..Len(v.f) : HasNegativeLength(v.f[i].val)
    \/ \E i \in 1..Len(v.e) : HasNegativeLength(v.e[i])

\* The cursor on top is a sequence's, of negative length.
NegativeOnTop ==
    phase = "decode" /\ dstack # <<>>
        /\ Last(dstack).t = "seq" /\ Last(dstack).length < 0

\* The decode has ended in a failure.
DecodeFailed == phase = "done" /\ dres.e \notin {"Ok", "Running"}

\* C23: a List, I8Array or I32Array of negative declared length is never
\* reported empty or ended by its cursor, which decodes elements until one
\* fails: the decode of a stream that holds one ends in an error and never
\* returns a value.
NegativeLengthNeverReturns ==
    /\ [][\A want \in Wants :
              (NegativeOnTop /\ Last(dstack).current = 0 /\ VisitSeed(want))
                  => \/ DecodeFailed'
                     \/ Len(dstack') >= Len(dstack) /\ dres' = Running]_vars
    /\ []((phase = "done" /\ dres = Ok) => ~HasNegativeLength(dval))

\* What holds: short of the overflow of current, an element that is not a
\* unit struct is read from the stream or opens a cursor that reads, or
\* fails, and the sequence does not end; while such elements are asked for,
\* the sequence goes on to the end of the stream and the decode fails.
NegativeLengthReads ==
    [][\A want \in {"any", "bool"} :
           (NegativeOnTop /\ Last(dstack).current >= 0 /\ VisitSeed(want))
               => \/ DecodeFailed'
                  \/ /\ dres' = Running
                     /\ pos' > pos \/ Len(dstack') > Len(dstack)
                     /\ Len(dstack') >= Len(dstack)]_vars

\* A record was returned whose field is a sequence of length -1: the
\* visitor asked for unit structs, 4294967295 times.
NegativeLengthReturned ==
    /\ phase = "done"
    /\ dres = Ok
    /\ dval.k = "Compound"
    /\ Len(dval.f) = 1
    /\ dval.f[1].val.k = "List"
    /\ dval.f[1].val.n = -1

\* The same decode in a build that checks overflow: a panic at i32::MAX.
NegativeLengthPanicked ==
    /\ phase = "done"
    /\ dres = Panic("attempt to add with overflow")

----------------------------------------------------------------------------
\* The whole stream the encoder wrote was decoded and a value returned.
ReturnedOfWhole ==
    phase = "done" /\ dres = Ok /\ reader = writer

\* C24: the decoder consumes the bytes the encoder wrote for a unit struct.
\* Decoded at the root, the position is left at the end of the stream; as
\* the value of a field, whose tag and name the key consumed, the End byte
\* is consumed; and the record holding it is decoded with all its fields,
\* to the end of the stream.
UnitRecordSymmetry ==
    /\ [][(VisitValue("unit_struct") /\ dres'.e \in {"Ok", "Running"})
              => pos' = pos + 1]_vars
    /\ []((ReturnedOfWhole /\ htype = UnitVal) => pos = Len(reader))
    /\ []((ReturnedOfWhole /\ htype.k = "Compound")
              => (Len(dval.f) = Len(htype.f) /\ pos = Len(reader)))

\* The unit struct the root is: the four bytes written are left unread.
UnitRootLeftUnread ==
    /\ ReturnedOfWhole
    /\ htype = UnitVal
    /\ dval = UnitVal
    /\ Len(reader) = 4
    /\ pos = 0

\* The End byte of the unit struct in field "a" was taken for the End of the
\* root record: the field after it was not decoded, nor the bytes after.
UnitFieldEndsRecord ==
    /\ ReturnedOfWhole
    /\ Len(htype.f) = 2
    /\ htype.f[1].val = UnitVal
    /\ dval = RecVal(<<htype.f[1]>>)
    /\ pos < Len(reader)

----------------------------------------------------------------------------
(* The decode call as a program that runs on: the host's visitors ask for  *)
(* the next key, value or element until the cursor gives an end or an      *)
(* error.                                                                  *)

\* The declared lengths of the sequences, as the four bytes of the stream.
LengthBytes ==
    NegativeLengths \cup
    {<<0, 0, 0, 0>>, <<0, 0, 0, 1>>, <<0, 0, 0, 3>>, <<0, 1, 0, 0>>,
     <<127, 255, 255, 255>>}

\* The streams: short ones, and a root header, a List, I8Array or I32Array
\* field "a" of some declared length, and up to two more bytes.
FiniteStreams ==
    {<<>>, <<1>>, <<10>>, <<10, 0, 0>>, <<10, 0, 0, 0>>,
     <<10, 0, 0, 10, 0, 1, 97, 0, 0>>, <<10, 0, 0, 1, 0, 1, 97, 1, 0>>}
    \cup
    {<<10, 0, 0>> \o h \o len \o tail :
        h \in {<<7, 0, 1, 97>>, <<11, 0, 1, 97>>, <<9, 0, 1, 97, 1>>,
               <<9, 0, 1, 97, 0>>, <<9, 0, 1, 97, 10>>},
        len \in LengthBytes,
        tail \in SeqsUpTo({0, 1, 255}, 2)}

\* The types the host decodes into: whatever the tags say, a unit struct, a
\* record whose field is a unit struct, a sequence of unit structs, or a
\* sequence of booleans.
HostTypes ==
    {NoVal,
     UnitVal,
     RecVal(<<[name |-> NameA, val |-> UnitVal]>>),
     RecVal(<<[name |-> NameA, val |-> SeqVal(0, <<UnitVal>>)]>>),
     RecVal(<<[name |-> NameA, val |-> SeqVal(0, <<BoolVal(0)>>)]>>)}

\* What the visitor of the sequence cursor top asks for: every element of a
\* sequence has the one type.
ElementWant(top) ==
    IF top.ty.e # <<>> THEN WantOf(top.ty.e[1]) ELSE "any"

InitRun ==
    /\ header = [some |-> FALSE, name |-> <<>>]
    /\ root = ""
    /\ writer = <<>>
    /\ cap = -1
    /\ wfail = FALSE
    /\ states = <<>>
    /\ eres = Running
    /\ hstack = <<>>
    /\ hval = NoVal
    /\ calls = 0
    /\ last = ""
    /\ phase = "decode"
    /\ htype \in HostTypes
    /\ reader \in FiniteStreams
    /\ pos = 0
    /\ dstack = <<>>
    /\ dres = Running
    /\ dval = NoVal

NextRun ==
    \/ DeserializeRoot
    \/ DeserializeUnitRoot
    \/ VisitKey
    \/ /\ dstack # <<>>
       /\ VisitValue(WantOf(NextType(Last(dstack))))
    \/ /\ dstack # <<>>
       /\ ElementWant(Last(dstack)) = "unit_struct" => RunsFrom(Last(dstack)) = {}
       /\ VisitSeed(ElementWant(Last(dstack)))
    \/ /\ dstack # <<>>
       /\ ElementWant(Last(dstack)) = "unit_struct"
       /\ \E n \in RunsFrom(Last(dstack)) : VisitSeedUnits(n)

\* The decode call is a sequential program: while it has not returned, its
\* next call is made.
SpecRun == InitRun /\ [][NextRun]_vars /\ WF_vars(NextRun)

\* The call that comes next is visit_key_seed: a record-field step starts.
FieldStep ==
    /\ phase = "decode" /\ dstack # <<>>
    /\ Last(dstack).t = "map" /\ ~Last(dstack).hasKey
    /\ vars' # vars

\* The call that comes next is visit_seed, short of the end of the sequence:
\* a sequence-element step.
ElementStep ==
    /\ phase = "decode" /\ dstack # <<>>
    /\ Last(dstack).t = "seq"
    /\ Last(dstack).current # Last(dstack).length
    /\ vars' # vars

\* The step consumes a byte or more of the stream, or fails.
ConsumesOrFails ==
    pos' > pos \/ dres'.e \notin {"Ok", "Running"}

\* The step opens the cursor of a record: the element's bytes are consumed
\* by the record-field steps that follow.
OpensRecord ==
    Len(dstack') = Len(dstack) + 1 /\ Last(dstack').t = "map"

\* C25: the decode call on a finite stream returns a value or an error in
\* the end, every record-field step and every sequence-element step
\* consuming at least one byte of the stream, or failing.
DecodeTerminates ==
    /\ <>(phase = "done" /\ dres.e # "Panic")
    /\ [][FieldStep => ConsumesOrFails]_vars
    /\ [][ElementStep => (ConsumesOrFails \/ OpensRecord)]_vars

\* What holds: the decode call ends, a panic being one of its ends, and a
\* sequence-element step that neither consumes a byte nor fails moves the
\* index of its cursor on.
DecodeEnds ==
    /\ <>(phase = "done")
    /\ [][FieldStep => ConsumesOrFails]_vars
    /\ [][ElementStep
              => \/ ConsumesOrFails
                 \/ OpensRecord
                 \/ /\ Len(dstack') = Len(dstack)
                    /\ Last(dstack').current # Last(dstack).current
                    /\ pos' = pos]_vars

\* 65536 elements were decoded from a stream of twelve bytes, none of which
\* they consumed.
ElementsOfNoBytes ==
    /\ phase = "done"
    /\ dres = Ok
    /\ Len(reader) = 12
    /\ dval = RecVal(<<[name |-> NameA, val |-> SeqVal(65536, <<UnitRun(65536)>>)]>>)

====
